---- MODULE Spec2Model ----
(***************************************************************************)
(* Sentence segmentation and cross-representation alignment of the         *)
(* wenyan-book-video processor: the quote-aware sentence splitters, the    *)
(* canonical sentence builder, the segment-to-sentence aligner and the     *)
(* old-to-new sentence migration.                                          *)
(*                                                                         *)
(* Text is a sequence of characters.  The characters that the code tests   *)
(* for are kept apart; every other character is the ideograph H.           *)
(*   QO = U+300E (opening double corner quote)                             *)
(*   QC = U+300F (closing double corner quote)                             *)
(*   CQ = U+300D (closing single corner quote)                             *)
(*   YUE = U+66F0 (the reporting verb)                                     *)
(*   DOT = U+3002 (ideographic full stop)                                  *)
(*   EX, QM = U+FF01, U+FF1F (the two other terminators)                   *)
(*   SP, NL = space, newline;  BT = backtick                               *)
(***************************************************************************)
EXTENDS Integers, Sequences, FiniteSets, TLC

VARIABLES
    \* --- the sentence splitter applied to one text
    text, splitter, preserve_spaces, sentences, pc,
    \* --- build_sentences_for_chapter: the blocks read so far, the Sentence
    \*     records emitted, the next sentence number
    blocks, sentence_records, sentence_counter, build_pc,
    \* --- the segment-to-sentence aligner (map_segments_to_sentence_ids and
    \*     build_sentence_segments_for_chapter)
    aligner, chapter_sentences, chapter_segments, seg_pos, segment,
    cn_sentences, cn_pos, sent_index, sentence_ids_for_segment, results,
    warnings, align_pc,
    \* --- migrate_chapter (migrate_sentences.py and its legacy version)
    version, old_sentences, new_sentences, old_translations_map, old_idx,
    new_idx, new_to_data_map, new_to_old_ids_map, id_map, mig_log,
    new_transcript, new_trans, mig_pc,
    \* --- split_transcript_data applied to one transcript and one list of new
    \*     sentence sources
    split_version, in_ipa, in_tupa, in_segments, out_results,
    split_pc,
    \* --- the transcription run of transcribe.py: the sentence transcript
    \*     files on disk, the file being processed and its loaded content,
    \*     the position in its sentences, and inside transcribe_to_ipa the
    \*     normalized text, the cursor, the emitted tokens and the undo stack.
    \*     start_files keeps the files as they were before the run,
    \*     completed the sentences whose transcription has returned, and
    \*     before_choice the cursor, tokens and undo stack at the operator's
    \*     latest choice.
    sentence_files, start_files, file_idx, file_data, sent_idx, changed,
    normalized_text, pos, ipa_parts, choice_history, before_choice, completed,
    tr_pc,
    \* --- create_segments applied to one list of sentences
    in_sentences, minChars, maxChars, out_segments, cs_pc,
    \* --- convert_chapter of convert-segment-transcripts-to-sentences.py, run
    \*     twice on the same canonical sentences and segment files with two
    \*     sets of transcript files: the run in progress, the segment it is
    \*     at, and per run the cursor, the result, the file written, and the
    \*     cursor at which each segment sentence was met
    cv_sentences, cv_segments, cv_transcripts, cv_run, cv_seg, cv_sent_index,
    cv_result, cv_output, cv_attributed, cv_pc

segVars == <<text, splitter, preserve_spaces, sentences, pc>>
buildVars == <<blocks, sentence_records, sentence_counter, build_pc>>

alignVars == <<aligner, chapter_sentences, chapter_segments, seg_pos, segment,
               cn_sentences, cn_pos, sent_index, sentence_ids_for_segment,
               results, warnings, align_pc>>

migVars == <<version, old_sentences, new_sentences, old_translations_map,
             old_idx, new_idx, new_to_data_map, new_to_old_ids_map, id_map, mig_log,
             new_transcript, new_trans, mig_pc>>

splitVars == <<split_version, in_ipa, in_tupa, in_segments,
               out_results, split_pc>>

trVars == <<sentence_files, start_files, file_idx, file_data, sent_idx,
            changed, normalized_text, pos, ipa_parts, choice_history,
            before_choice, completed, tr_pc>>

csVars == <<in_sentences, minChars, maxChars, out_segments, cs_pc>>

cvVars == <<cv_sentences, cv_segments, cv_transcripts, cv_run, cv_seg,
            cv_sent_index, cv_result, cv_output, cv_attributed, cv_pc>>

vars == <<segVars, buildVars, alignVars, migVars, splitVars, trVars, csVars,
          cvVars>>

\* the variables of a part that a specification does not run
IdleSeg ==
    /\ text = <<>> /\ splitter = "" /\ preserve_spaces = FALSE
    /\ sentences = <<>> /\ pc = "idle"
IdleBuild ==
    /\ blocks = <<>> /\ sentence_records = <<>> /\ sentence_counter = 0
    /\ build_pc = "idle"
IdleAlign ==
    /\ aligner = "" /\ chapter_sentences = <<>> /\ chapter_segments = <<>>
    /\ seg_pos = 0 /\ segment = <<>> /\ cn_sentences = <<>> /\ cn_pos = 0
    /\ sent_index = 0 /\ sentence_ids_for_segment = <<>> /\ results = <<>>
    /\ warnings = <<>> /\ align_pc = "idle"
IdleMig ==
    /\ version = "" /\ old_sentences = <<>> /\ new_sentences = <<>>
    /\ old_translations_map = <<>>
    /\ old_idx = 0 /\ new_idx = 0 /\ new_to_data_map = <<>>
    /\ new_to_old_ids_map = <<>> /\ id_map = <<>> /\ mig_log = {}
    /\ new_transcript = <<>> /\ new_trans = <<>> /\ mig_pc = "idle"
IdleSplit ==
    /\ split_version = "" /\ in_ipa = <<>> /\ in_tupa = <<>>
    /\ in_segments = <<>> /\ out_results = <<>> /\ split_pc = "idle"
IdleTr ==
    /\ sentence_files = <<>> /\ start_files = <<>> /\ file_idx = 0
    /\ file_data = <<>> /\ sent_idx = 0 /\ changed = FALSE
    /\ normalized_text = <<>> /\ pos = 0 /\ ipa_parts = <<>>
    /\ choice_history = <<>> /\ before_choice = <<>> /\ completed = {}
    /\ tr_pc = "idle"
IdleCs ==
    /\ in_sentences = <<>> /\ minChars = 0 /\ maxChars = 0
    /\ out_segments = <<>> /\ cs_pc = "idle"
IdleCv ==
    /\ cv_sentences = <<>> /\ cv_segments = <<>> /\ cv_transcripts = <<>>
    /\ cv_run = 0 /\ cv_seg = 0 /\ cv_sent_index = 0 /\ cv_result = <<>>
    /\ cv_output = <<>> /\ cv_attributed = <<>> /\ cv_pc = "idle"

----------------------------------------------------------------------------
\* Characters and Python string primitives

QO == "QO"
QC == "QC"
CQ == "CQ"
YUE == "YUE"
DOT == "DOT"
EX == "EX"
QM == "QM"
SP == "SP"
NL == "NL"
BT == "BT"
H == "H"
NoChar == "None"

Terminators == {DOT, EX, QM}

\* str.isspace() on the characters of the model
IsSpace(c) == c \in {SP, NL}

RECURSIVE LStrip(_)
LStrip(s) == IF s # <<>> /\ IsSpace(Head(s)) THEN LStrip(Tail(s)) ELSE s

RECURSIVE RStrip(_)
RStrip(s) ==
    IF s # <<>> /\ IsSpace(s[Len(s)]) THEN RStrip(SubSeq(s, 1, Len(s) - 1)) ELSE s

\* str.strip()
Strip(s) == RStrip(LStrip(s))

\* "".join(list)
RECURSIVE Concat(_)
Concat(ss) == IF ss = <<>> THEN <<>> ELSE Head(ss) \o Concat(Tail(ss))

\* the text from index j (1-based) on; empty when j is past the end
From(s, j) == IF j > Len(s) THEN <<>> ELSE SubSeq(s, j, Len(s))

\* str.startswith
StartsWith(s, p) == Len(p) <= Len(s) /\ SubSeq(s, 1, Len(p)) = p

----------------------------------------------------------------------------
\* split_chinese_sentences: the quote-aware character scan

\* the flush of the accumulator: strip unless spaces are preserved, and
\* keep the sentence only when it is not empty
FlushAlwaysStrip(out, cur, preserve) ==
    IF Strip(cur) # <<>> THEN Append(out, Strip(cur)) ELSE out

Flush(out, cur, preserve) ==
    LET processed == IF preserve THEN cur ELSE Strip(cur)
    IN  IF processed # <<>> THEN Append(out, processed) ELSE out

\* the lookahead of the closing corner quote: the next character that is
\* not whitespace at index j or later, NoChar when there is none
RECURSIVE NextNonWs(_, _)
NextNonWs(t, j) ==
    IF j > Len(t) THEN NoChar
    ELSE IF ~IsSpace(t[j]) THEN t[j]
    ELSE NextNonWs(t, j + 1)

\* the index just after the run of newlines that starts at index i
RECURSIVE NewlineRunEnd(_, _)
NewlineRunEnd(t, j) ==
    IF j <= Len(t) /\ t[j] = NL THEN NewlineRunEnd(t, j + 1) ELSE j

\* whether the closing double quote at index i ends the sentence: the
\* character before it is a terminator and the one after it is not
SplitsAtClose(t, i) ==
    /\ i > 1
    /\ t[i - 1] \in Terminators
    /\ ~(i + 1 <= Len(t) /\ t[i + 1] \in Terminators)

\* the while loop of split_chinese_sentences from index i on, with the
\* final flush.  newline_rule is the branch that only segment-text.py has.
RECURSIVE ScanSentences(_, _, _, _, _, _, _)
ScanSentences(t, i, cur, inside_quotes, out, preserve, newline_rule) ==
    IF i > Len(t) THEN Flush(out, cur, preserve)
    ELSE LET char == t[i] IN
      IF char = QO THEN
        ScanSentences(t, i + 1, Append(cur, char), TRUE, out, preserve, newline_rule)
      ELSE IF char = QC THEN
        IF SplitsAtClose(t, i)
        THEN ScanSentences(t, i + 1, <<>>, FALSE,
                           Flush(out, Append(cur, char), preserve),
                           preserve, newline_rule)
        ELSE ScanSentences(t, i + 1, Append(cur, char), FALSE, out,
                           preserve, newline_rule)
      ELSE IF char = CQ THEN
        IF NextNonWs(t, i + 1) = YUE
        THEN ScanSentences(t, i + 1, <<>>, inside_quotes,
                           Flush(out, Append(cur, char), preserve),
                           preserve, newline_rule)
        ELSE ScanSentences(t, i + 1, Append(cur, char), inside_quotes, out,
                           preserve, newline_rule)
      ELSE IF newline_rule /\ char = NL /\ ~inside_quotes THEN
        LET j == NewlineRunEnd(t, i + 1)
        IN  ScanSentences(t, j, SubSeq(t, i, j - 1), inside_quotes,
                          Flush(out, cur, preserve), preserve, newline_rule)
      ELSE IF char \in Terminators /\ ~inside_quotes THEN
        ScanSentences(t, i + 1, <<>>, inside_quotes,
                      Flush(out, Append(cur, char), preserve),
                      preserve, newline_rule)
      ELSE
        ScanSentences(t, i + 1, Append(cur, char), inside_quotes, out,
                      preserve, newline_rule)

\* build-sentences.py
BuildSplitChineseSentences(t, preserve) ==
    ScanSentences(t, 1, <<>>, FALSE, <<>>, preserve, FALSE)

\* segment-text.py
SegSplitChineseSentences(t) ==
    ScanSentences(t, 1, <<>>, FALSE, <<>>, FALSE, TRUE)

\* generate_sentence_segments.py
GenSplitChineseSentences(t) ==
    ScanSentences(t, 1, <<>>, FALSE, <<>>, FALSE, FALSE)

\* the splitter under test
SplitWith(which, t, preserve) ==
    IF which = "segment_text" THEN SegSplitChineseSentences(t)
    ELSE BuildSplitChineseSentences(t, preserve)

----------------------------------------------------------------------------
\* More string primitives

OCQ == "OCQ"
DASH == "DASH"
HASH == "HASH"

\* index of the first occurrence of character c in s at or after j, 0 if none
RECURSIVE IndexOf(_, _, _)
IndexOf(s, c, j) ==
    IF j > Len(s) THEN 0 ELSE IF s[j] = c THEN j ELSE IndexOf(s, c, j + 1)

\* str.split(sep) for a one-character separator
RECURSIVE SplitOn(_, _)
SplitOn(s, sep) ==
    LET k == IndexOf(s, sep, 1)
    IN  IF k = 0 THEN <<s>>
        ELSE <<SubSeq(s, 1, k - 1)>> \o SplitOn(From(s, k + 1), sep)

\* str.splitlines(): like split on newline, without a last empty line
SplitLines(s) ==
    LET parts == SplitOn(s, NL)
    IN  IF parts[Len(parts)] = <<>> THEN SubSeq(parts, 1, Len(parts) - 1)
        ELSE parts

\* sep.join(list)
RECURSIVE Join(_, _)
Join(ss, sep) ==
    IF ss = <<>> THEN <<>>
    ELSE IF Len(ss) = 1 THEN ss[1]
    ELSE ss[1] \o <<sep>> \o Join(Tail(ss), sep)

\* str.replace(a + a, b): the doubled character a becomes b, left to right
RECURSIVE ReplaceDouble(_, _, _)
ReplaceDouble(s, a, b) ==
    IF s = <<>> THEN <<>>
    ELSE IF Len(s) >= 2 /\ s[1] = a /\ s[2] = a
         THEN <<b>> \o ReplaceDouble(From(s, 3), a, b)
    ELSE <<s[1]>> \o ReplaceDouble(Tail(s), a, b)

\* str.replace(c, ""): every character c removed
RECURSIVE RemoveChar(_, _)
RemoveChar(s, c) ==
    IF s = <<>> THEN <<>>
    ELSE IF Head(s) = c THEN RemoveChar(Tail(s), c)
    ELSE <<Head(s)>> \o RemoveChar(Tail(s), c)

\* re.sub(r"\s+", "", s)
RECURSIVE RemoveWhitespace(_)
RemoveWhitespace(s) ==
    IF s = <<>> THEN <<>>
    ELSE IF IsSpace(Head(s)) THEN RemoveWhitespace(Tail(s))
    ELSE <<Head(s)>> \o RemoveWhitespace(Tail(s))

\* re.sub on runs: every maximal run of characters of the set run becomes
\* the single character by
RECURSIVE CollapseRuns(_, _, _)
CollapseRuns(s, run, by) ==
    IF s = <<>> THEN <<>>
    ELSE IF Head(s) \in run
         THEN IF Len(s) >= 2 /\ s[2] \in run
              THEN CollapseRuns(Tail(s), run, by)
              ELSE <<by>> \o CollapseRuns(Tail(s), run, by)
    ELSE <<Head(s)>> \o CollapseRuns(Tail(s), run, by)

\* whether p occurs in s as a contiguous substring (Python "p in s")
Contains(s, p) ==
    \E k \in 0..(Len(s) - Len(p)) : SubSeq(s, k + 1, k + Len(p)) = p

\* the index just after the run of whitespace that starts at index j
RECURSIVE SpaceRunEnd(_, _)
SpaceRunEnd(s, j) ==
    IF j <= Len(s) /\ IsSpace(s[j]) THEN SpaceRunEnd(s, j + 1) ELSE j

\* the index just after the run of character c that starts at index j
RECURSIVE CharRunEnd(_, _, _)
CharRunEnd(s, c, j) ==
    IF j <= Len(s) /\ s[j] = c THEN CharRunEnd(s, c, j + 1) ELSE j

\* the index of the end of the line that holds index j: the next newline at
\* or after j, or one past the end
LineEnd(s, j) ==
    LET k == IndexOf(s, NL, j) IN IF k = 0 THEN Len(s) + 1 ELSE k

\* re.sub(r"^#+\s+.*$", "", s, flags=re.MULTILINE)
RECURSIVE RemoveHeadings(_, _, _)
RemoveHeadings(s, i, at_line_start) ==
    IF i > Len(s) THEN <<>>
    ELSE LET h == CharRunEnd(s, HASH, i)
             w == SpaceRunEnd(s, h)
         IN  IF at_line_start /\ h > i /\ w > h
             THEN RemoveHeadings(s, LineEnd(s, w), FALSE)
             ELSE <<s[i]>> \o RemoveHeadings(s, i + 1, s[i] = NL)

\* re.sub(r"^-\s+", "", s, flags=re.MULTILINE)
RECURSIVE RemoveListMarkers(_, _, _)
RemoveListMarkers(s, i, at_line_start) ==
    IF i > Len(s) THEN <<>>
    ELSE LET w == SpaceRunEnd(s, i + 1)
         IN  IF at_line_start /\ s[i] = DASH /\ w > i + 1
             THEN RemoveListMarkers(s, w, s[w - 1] = NL)
             ELSE <<s[i]>> \o RemoveListMarkers(s, i + 1, s[i] = NL)

\* the part of remove_markdown that both copies share, up to the
\* preserve_newlines return
MarkdownStripped(s) ==
    LET quoted == ReplaceDouble(ReplaceDouble(s, OCQ, QO), CQ, QC)
        unheaded == RemoveHeadings(quoted, 1, TRUE)
    IN  RemoveListMarkers(unheaded, 1, TRUE)

\* remove_markdown of build-sentences.py: newline runs become one space
BuildRemoveMarkdown(s, preserve_newlines) ==
    IF preserve_newlines THEN MarkdownStripped(s)
    ELSE Strip(CollapseRuns(CollapseRuns(MarkdownStripped(s), {SP}, SP), {NL}, SP))

\* remove_markdown of segment-text.py: newline runs become one newline
SegRemoveMarkdown(s, preserve_newlines) ==
    IF preserve_newlines THEN MarkdownStripped(s)
    ELSE Strip(CollapseRuns(CollapseRuns(MarkdownStripped(s), {SP}, SP), {NL}, NL))

\* normalize_for_comparison: backticks removed, whitespace runs collapsed to
\* one space, stripped
NormalizeForComparison(s) ==
    Strip(CollapseRuns(RemoveChar(s, BT), {SP, NL}, SP))

\* visible_length
VisibleLength(s) == Len(RemoveWhitespace(s))

----------------------------------------------------------------------------
\* split_sentences of build-sentences.py

EndsWith(s, c) == s # <<>> /\ s[Len(s)] = c

\* the fast path: the parts of text.split(DOT), stripped; an empty part is
\* skipped, a part before a full stop gets it back, the last part is kept
RECURSIVE FastPathParts(_, _, _, _)
FastPathParts(parts, i, t, out) ==
    IF i > Len(parts) THEN out
    ELSE LET part == Strip(parts[i]) IN
         IF part = <<>> THEN FastPathParts(parts, i + 1, t, out)
         ELSE IF i < Len(parts) THEN
            FastPathParts(parts, i + 1, t, Append(out, Append(part, DOT)))
         ELSE IF EndsWith(t, DOT) THEN
            FastPathParts(parts, i + 1, t, Append(out, Append(part, DOT)))
         ELSE FastPathParts(parts, i + 1, t, Append(out, part))

\* the tokens of the backtick-aware path: code spans from a backtick to the
\* next one (or to the end), and the plain text between them
RECURSIVE BacktickTokens(_, _)
BacktickTokens(t, i) ==
    IF i > Len(t) THEN <<>>
    ELSE IF t[i] = BT THEN
        LET j == IndexOf(t, BT, i + 1)
        IN  IF j # 0
            THEN <<[segment |-> SubSeq(t, i, j), is_code |-> TRUE]>>
                    \o BacktickTokens(t, j + 1)
            ELSE <<[segment |-> From(t, i), is_code |-> TRUE]>>
    ELSE
        LET k == IndexOf(t, BT, i)
            j == IF k = 0 THEN Len(t) + 1 ELSE k
        IN  <<[segment |-> SubSeq(t, i, j - 1), is_code |-> FALSE]>>
                \o BacktickTokens(t, j)

\* the stripped sentence is kept when it is not empty
FlushStripped(out, cur) ==
    IF Strip(cur) # <<>> THEN Append(out, Strip(cur)) ELSE out

\* a plain token, character by character: a full stop ends the sentence
RECURSIVE PlainTokenScan(_, _, _, _)
PlainTokenScan(seg, j, cur, out) ==
    IF j > Len(seg) THEN [cur |-> cur, out |-> out]
    ELSE IF seg[j] = DOT
         THEN PlainTokenScan(seg, j + 1, <<>>, FlushStripped(out, Append(cur, seg[j])))
    ELSE PlainTokenScan(seg, j + 1, Append(cur, seg[j]), out)

\* the loop over the tokens and the tail
RECURSIVE TokenLoop(_, _, _, _)
TokenLoop(tokens, k, cur, out) ==
    IF k > Len(tokens) THEN FlushStripped(out, cur)
    ELSE IF tokens[k].is_code THEN
        IF IndexOf(tokens[k].segment, DOT, 1) # 0
        THEN TokenLoop(tokens, k + 1, <<>>,
                       FlushStripped(out, cur \o tokens[k].segment))
        ELSE TokenLoop(tokens, k + 1, cur \o tokens[k].segment, out)
    ELSE LET r == PlainTokenScan(tokens[k].segment, 1, cur, out)
         IN  TokenLoop(tokens, k + 1, r.cur, r.out)

BuildSplitSentences(t) ==
    IF IndexOf(t, BT, 1) = 0
    THEN FastPathParts(SplitOn(t, DOT), 1, t, <<>>)
    ELSE TokenLoop(BacktickTokens(t, 1), 1, <<>>, <<>>)

----------------------------------------------------------------------------
\* split_sentences, create_segments and segment_code_block of segment-text.py

RECURSIVE SegParts(_, _, _, _)
SegParts(parts, i, t, out) ==
    IF i > Len(parts) THEN out
    ELSE LET part == Strip(parts[i]) IN
         IF part = <<>> THEN SegParts(parts, i + 1, t, out)
         ELSE IF i < Len(parts) \/ EndsWith(t, DOT)
              THEN SegParts(parts, i + 1, t, Append(out, Append(part, DOT)))
         ELSE SegParts(parts, i + 1, t, out)

SegSplitSentences(t) == SegParts(SplitOn(t, DOT), 1, t, <<>>)

DefaultMinChars == 85
DefaultMaxChars == 95
CodeBudget == 95

\* the while loop of create_segments from sentence i on, with the last
\* append; current_segment is the list of the sentences of the open segment
RECURSIVE CreateSegmentsLoop(_, _, _, _, _, _, _)
CreateSegmentsLoop(ss, i, current_segment, current_length, segments, min_chars, max_chars) ==
    IF i > Len(ss) THEN
        IF current_segment # <<>> THEN Append(segments, Concat(current_segment))
        ELSE segments
    ELSE LET sentence == ss[i]
             sentence_length == VisibleLength(sentence)
         IN
         IF current_segment = <<>> THEN
            CreateSegmentsLoop(ss, i + 1, <<sentence>>, sentence_length,
                               segments, min_chars, max_chars)
         ELSE IF current_length + sentence_length > max_chars THEN
            IF current_length >= min_chars THEN
                CreateSegmentsLoop(ss, i, <<>>, 0,
                                   Append(segments, Concat(current_segment)),
                                   min_chars, max_chars)
            ELSE
                CreateSegmentsLoop(ss, i + 1, <<>>, 0,
                    Append(segments, Concat(Append(current_segment, sentence))),
                    min_chars, max_chars)
         ELSE
            LET grown == Append(current_segment, sentence)
                length == current_length + sentence_length
            IN  IF /\ length >= min_chars
                   /\ i + 1 <= Len(ss)
                   /\ length + VisibleLength(ss[i + 1]) > max_chars
                THEN CreateSegmentsLoop(ss, i + 1, <<>>, 0,
                                        Append(segments, Concat(grown)),
                                        min_chars, max_chars)
                ELSE CreateSegmentsLoop(ss, i + 1, grown, length, segments,
                                        min_chars, max_chars)

\* a variant that forgets the sentences still pending at the end of the loop
CreateSegmentsWithoutPending(ss, min_chars, max_chars) ==
    LET all == CreateSegmentsLoop(ss, 1, <<>>, 0, <<>>, min_chars, max_chars)
    IN  SubSeq(all, 1, Len(all) - 1)

\* a variant that joins all sentences into one segment
CreateSegmentsJoiningAll(ss, min_chars, max_chars) ==
    IF ss = <<>> THEN <<>> ELSE <<Concat(ss)>>

CreateSegments(ss, min_chars, max_chars) ==
    CreateSegmentsLoop(ss, 1, <<>>, 0, <<>>, min_chars, max_chars)

\* line.strip().startswith of a code fence (three backticks)
IsFenceLine(line) == StartsWith(Strip(line), <<BT, BT, BT>>)

RECURSIVE DropFenceLines(_)
DropFenceLines(lines) ==
    IF lines = <<>> THEN <<>>
    ELSE IF IsFenceLine(Head(lines)) THEN DropFenceLines(Tail(lines))
    ELSE <<Head(lines)>> \o DropFenceLines(Tail(lines))

RECURSIVE DropBlankEdges(_)
DropBlankEdges(lines) ==
    IF lines # <<>> /\ Strip(Head(lines)) = <<>> THEN DropBlankEdges(Tail(lines))
    ELSE IF lines # <<>> /\ Strip(lines[Len(lines)]) = <<>>
         THEN DropBlankEdges(SubSeq(lines, 1, Len(lines) - 1))
    ELSE lines

\* the line packing of segment_code_block under the 95-character budget
RECURSIVE PackLines(_, _, _, _, _)
PackLines(lines, k, current_lines, current_length, segments) ==
    IF k > Len(lines) THEN
        IF current_lines # <<>> THEN Append(segments, Join(current_lines, NL))
        ELSE segments
    ELSE LET line_length == Len(lines[k]) + 1 IN
         IF current_length + line_length > CodeBudget /\ current_lines # <<>>
         THEN PackLines(lines, k + 1, <<lines[k]>>, line_length,
                        Append(segments, Join(current_lines, NL)))
         ELSE PackLines(lines, k + 1, Append(current_lines, lines[k]),
                        current_length + line_length, segments)

SegmentCodeBlock(source) ==
    LET lines == DropBlankEdges(DropFenceLines(SplitLines(source)))
    IN  IF lines = <<>> THEN <<>>
        ELSE IF Len(Join(lines, NL)) <= CodeBudget THEN <<Join(lines, NL)>>
        ELSE PackLines(lines, 1, <<>>, 0, <<>>)

----------------------------------------------------------------------------
\* Chapter blocks: [id, type, source, items].  Blocks with an id are numbered
\* from 1; a missing id is NoId, a missing type is "".

NoId == 0

RECURSIVE ListMarkdown(_)
ListMarkdown(items) ==
    IF items = <<>> THEN <<>>
    ELSE IF Len(items) = 1 THEN <<DASH, SP>> \o items[1]
    ELSE <<DASH, SP>> \o items[1] \o <<NL>> \o ListMarkdown(Tail(items))

\* the sentence sources build_sentences_for_chapter emits for one block
BlockSentenceSources(block) ==
    IF block.id = NoId \/ block.type = "" THEN <<>>
    ELSE IF block.type = "code" THEN
        LET code_text == Join(DropFenceLines(SplitOn(block.source, NL)), NL)
            normalized == ReplaceDouble(ReplaceDouble(code_text, OCQ, QO), CQ, QC)
            code_sentences == BuildSplitChineseSentences(normalized, TRUE)
        IN  IF Strip(code_text) = <<>> THEN <<>>
            ELSE IF code_sentences = <<>> THEN <<normalized>>
            ELSE code_sentences
    ELSE
        LET markdown == IF block.type = "list" THEN ListMarkdown(block.items)
                        ELSE block.source
            t == BuildRemoveMarkdown(markdown, FALSE)
            parts == BuildSplitSentences(t)
        IN  IF block.type = "list" /\ block.items = <<>> THEN <<>>
            ELSE IF Strip(markdown) = <<>> \/ Strip(t) = <<>> THEN <<>>
            ELSE IF parts = <<>> THEN <<Strip(t)>>
            ELSE parts

\* a variant that numbers the sentences of every block from its position
BlockSentencesNumberedPerBlock(block, counter) ==
    LET parts == BlockSentenceSources(block)
    IN  [k \in 1..Len(parts) |->
            [id |-> block.id + k - 1,
             blockId |-> block.id,
             index |-> block.id + k - 1,
             source |-> parts[k],
             isCode |-> block.type = "code"]]

\* the Sentence records of one block, numbered from the sentence counter on
BlockSentences(block, counter) ==
    LET parts == BlockSentenceSources(block)
    IN  [k \in 1..Len(parts) |->
            [id |-> counter + k - 1,
             blockId |-> block.id,
             index |-> counter + k - 1,
             source |-> parts[k],
             isCode |-> block.type = "code"]]

\* build_sentences_for_chapter: the loop over the blocks
RECURSIVE BuildSentencesForChapter(_, _, _)
BuildSentencesForChapter(chapter, b, out) ==
    IF b > Len(chapter) THEN out
    ELSE BuildSentencesForChapter(chapter, b + 1,
            out \o BlockSentences(chapter[b], Len(out) + 1))

\* the segment texts segment_chapter makes of one block
BlockSegmentTexts(block) ==
    IF block.type = "code" THEN SegmentCodeBlock(block.source)
    ELSE
        LET markdown == IF block.type = "list" THEN ListMarkdown(block.items)
                        ELSE block.source
            t == SegRemoveMarkdown(markdown, FALSE)
            ss == SegSplitSentences(t)
        IN  IF block.type = "list" /\ block.items = <<>> THEN <<>>
            ELSE IF Strip(markdown) = <<>> \/ Strip(t) = <<>> THEN <<>>
            ELSE IF ss # <<>> THEN CreateSegments(ss, DefaultMinChars, DefaultMaxChars)
            ELSE <<Strip(t)>>

\* the RawSegment records of one block: the empty texts are left out
RECURSIVE BlockSegments(_, _, _)
BlockSegments(block, texts, k) ==
    IF k > Len(texts) THEN <<>>
    ELSE IF Strip(texts[k]) = <<>> THEN BlockSegments(block, texts, k + 1)
    ELSE <<[text |-> Strip(texts[k]),
            block_id |-> block.id,
            is_code_block |-> block.type = "code"]>>
            \o BlockSegments(block, texts, k + 1)

\* segment_chapter: the loop over the blocks
RECURSIVE SegmentChapter(_, _)
SegmentChapter(chapter, b) ==
    IF b > Len(chapter) THEN <<>>
    ELSE BlockSegments(chapter[b], BlockSegmentTexts(chapter[b]), 1)
            \o SegmentChapter(chapter, b + 1)

----------------------------------------------------------------------------
\* Bounds

MaxTextLen == 5

SegAlphabet == {QO, QC, CQ, YUE, DOT, SP, NL, H}

RECURSIVE TextsUpTo(_, _)
TextsUpTo(alphabet, n) ==
    IF n = 0 THEN {<<>>}
    ELSE LET shorter == TextsUpTo(alphabet, n - 1)
         IN  shorter \cup {Append(s, c) : s \in {x \in shorter : Len(x) = n - 1},
                                           c \in alphabet}

----------------------------------------------------------------------------
\* The splitter applied to one text

InitSeg ==
    /\ IdleBuild /\ IdleAlign /\ IdleMig /\ IdleSplit /\ IdleTr /\ IdleCs /\ IdleCv
    /\ text \in TextsUpTo(SegAlphabet, MaxTextLen)
    /\ splitter \in {"build", "segment_text"}
    /\ preserve_spaces \in (IF splitter = "build" THEN BOOLEAN ELSE {FALSE})
    /\ sentences = <<>>
    /\ pc = "input"

SplitChineseSentences ==
    /\ pc = "input"
    /\ sentences' = SplitWith(splitter, text, preserve_spaces)
    /\ pc' = "done"
    /\ UNCHANGED <<text, splitter, preserve_spaces>>
    /\ UNCHANGED <<buildVars, alignVars, migVars, splitVars, trVars, csVars, cvVars>>

NextSeg == SplitChineseSentences

SpecSeg == InitSeg /\ [][NextSeg]_vars

----------------------------------------------------------------------------
\* C1

\* C1 witness: sentences were split off with whitespace dropped at a boundary
SegmentationExactWitness ==
    /\ pc = "done"
    /\ ~preserve_spaces
    /\ Len(sentences) >= 2
    /\ Concat(sentences) # text

\* t is ss[1] .. ss[n] in order, with whitespace only before, between and
\* after them, and no sentence is empty or has whitespace at an end
RECURSIVE Reassembles(_, _)
Reassembles(t, ss) ==
    IF ss = <<>> THEN LStrip(t) = <<>>
    ELSE /\ Head(ss) # <<>>
         /\ Strip(Head(ss)) = Head(ss)
         /\ StartsWith(LStrip(t), Head(ss))
         /\ Reassembles(From(LStrip(t), Len(Head(ss)) + 1), Tail(ss))

\* C1: the sentences of split_chinese_sentences, concatenated, are the
\* input exactly when preserve_spaces is set, and otherwise the input with
\* only whitespace at the sentence boundaries removed.
SegmentationExact ==
    pc = "done" =>
        IF preserve_spaces THEN Concat(sentences) = text
        ELSE Reassembles(text, sentences)

\* C2 (as claimed): splitting a returned sentence again returns that one
\* sentence unchanged.
SegmenterIdempotent ==
    pc = "done" =>
        \A k \in 1..Len(sentences) :
            SplitWith(splitter, sentences[k], preserve_spaces) = <<sentences[k]>>

----------------------------------------------------------------------------
\* build_sentences_for_chapter, one block per step

MaxChapterLen == 3

BuildAlphabet == {QO, QC, DOT, H, NL}

\* what a block costs of the chapter budget
BlockCost(block) ==
    IF block.type = "list" THEN Len(Join(block.items, NL)) + 1
    ELSE IF Len(block.source) = 0 THEN 1 ELSE Len(block.source)

\* the blocks that may stand at position i of a chapter: a code, list or
\* text block with an id, or a block whose id or type is missing
BlocksWithin(alphabet, budget, i) ==
    IF budget <= 0 THEN {}
    ELSE
        {[id |-> i, type |-> ty, source |-> t, items |-> <<>>] :
            ty \in {"code", "text"}, t \in TextsUpTo(alphabet, budget)}
        \cup {[id |-> i, type |-> "list", source |-> <<>>,
               items |-> SplitOn(t, NL)] : t \in TextsUpTo(alphabet, budget - 1)}
        \cup {[id |-> i, type |-> "list", source |-> <<>>, items |-> <<>>],
              [id |-> NoId, type |-> "text", source |-> <<H>>, items |-> <<>>],
              [id |-> i, type |-> "", source |-> <<H>>, items |-> <<>>]}

RECURSIVE ChapterCost(_)
ChapterCost(bs) == IF bs = <<>> THEN 0 ELSE BlockCost(Head(bs)) + ChapterCost(Tail(bs))

InitBuild ==
    /\ IdleSeg /\ IdleAlign /\ IdleMig /\ IdleSplit /\ IdleTr /\ IdleCs /\ IdleCv
    /\ blocks = <<>>
    /\ sentence_records = <<>>
    /\ sentence_counter = 1
    /\ build_pc = "blocks"

\* one iteration of the loop over the blocks, for a block of the given kind
ReadBlock(block) ==
    /\ build_pc = "blocks"
    /\ blocks' = Append(blocks, block)
    /\ sentence_records' = sentence_records \o BlockSentences(block, sentence_counter)
    /\ sentence_counter' = sentence_counter + Len(BlockSentenceSources(block))
    /\ UNCHANGED build_pc
    /\ UNCHANGED <<segVars, alignVars, migVars, splitVars, trVars, csVars, cvVars>>

NextBlocks ==
    BlocksWithin(BuildAlphabet, MaxChapterLen - ChapterCost(blocks), Len(blocks) + 1)

SkipBlock ==
    build_pc = "blocks" /\ \E block \in NextBlocks :
        /\ BlockSentenceSources(block) = <<>>
        /\ ReadBlock(block)

CodeBlock ==
    build_pc = "blocks" /\ \E block \in NextBlocks :
        /\ block.id # NoId /\ block.type = "code"
        /\ BlockSentenceSources(block) # <<>>
        /\ ReadBlock(block)

ListBlock ==
    build_pc = "blocks" /\ \E block \in NextBlocks :
        /\ block.id # NoId /\ block.type = "list"
        /\ BlockSentenceSources(block) # <<>>
        /\ ReadBlock(block)

TextBlock ==
    build_pc = "blocks" /\ \E block \in NextBlocks :
        /\ block.id # NoId /\ block.type = "text"
        /\ BlockSentenceSources(block) # <<>>
        /\ ReadBlock(block)

\* the end of the loop: the sentence file is written
WriteSentences ==
    /\ build_pc = "blocks"
    /\ build_pc' = "done"
    /\ UNCHANGED <<blocks, sentence_records, sentence_counter>>
    /\ UNCHANGED <<segVars, alignVars, migVars, splitVars, trVars, csVars, cvVars>>

NextBuild == SkipBlock \/ CodeBlock \/ ListBlock \/ TextBlock \/ WriteSentences

SpecBuild == InitBuild /\ [][NextBuild]_vars

----------------------------------------------------------------------------
\* C3

\* whether the text ends inside an open double quote: the last double quote
\* character in it is an opening one
RECURSIVE OpenAtEnd(_)
OpenAtEnd(s) ==
    IF s = <<>> THEN FALSE
    ELSE IF s[Len(s)] = QO THEN TRUE
    ELSE IF s[Len(s)] = QC THEN FALSE
    ELSE OpenAtEnd(SubSeq(s, 1, Len(s) - 1))

\* the sentences emitted for block b, in order
SourcesOfBlock(b) ==
    LET own == SelectSeq(sentence_records, LAMBDA r : r.blockId = b)
    IN  [k \in 1..Len(own) |-> own[k].source]

\* sentence k of parts ends at a terminator that lies between an opening
\* double quote and its closing one
EndsInsideQuotes(parts, k) ==
    /\ parts[k] # <<>>
    /\ parts[k][Len(parts[k])] \in Terminators
    /\ OpenAtEnd(Concat(SubSeq(parts, 1, k)))
    /\ IndexOf(Concat(SubSeq(parts, k + 1, Len(parts))), QC, 1) # 0

\* C3 (as claimed): no canonical sentence of a block, code or prose or
\* list, ends at a terminator between an opening double quote and its
\* closing one.
QuoteSuppression ==
    \A b \in 1..Len(blocks) :
        LET parts == SourcesOfBlock(b)
        IN  \A k \in 1..Len(parts) : ~EndsInsideQuotes(parts, k)

----------------------------------------------------------------------------
\* The segment-to-sentence aligner: map_segments_to_sentence_ids
\* (segment-text.py) and build_sentence_segments_for_chapter
\* (generate_sentence_segments.py).  sent_index counts from 0 as in the code.

Entry(i) == chapter_sentences[i + 1]

InRange == sent_index < Len(chapter_sentences)

\* the canonical sentence at the cursor belongs to another block than the
\* segment (only map_segments_to_sentence_ids looks at blocks)
BlockMismatch ==
    /\ aligner = "segment_text"
    /\ segment.block_id # NoId
    /\ Entry(sent_index).blockId # NoId
    /\ Entry(sent_index).blockId # segment.block_id

MatchIndices ==
    {idx \in sent_index..(Len(chapter_sentences) - 1) :
        Entry(idx).blockId = segment.block_id}

MatchIndex == CHOOSE idx \in MatchIndices : \A other \in MatchIndices : idx <= other

SpansMultiple(i, cn_sentence) ==
    LET canonical_normalized == NormalizeForComparison(Entry(i).source)
        cn_normalized == NormalizeForComparison(cn_sentence)
    IN  /\ canonical_normalized # <<>>
        /\ cn_normalized # <<>>
        /\ Contains(cn_normalized, canonical_normalized)
        /\ i + 1 < Len(chapter_sentences)
        /\ LET next_normalized == NormalizeForComparison(Entry(i + 1).source)
               combined == canonical_normalized \o <<SP>> \o next_normalized
           IN  /\ next_normalized # <<>>
               /\ Contains(RemoveChar(cn_normalized, SP), RemoveChar(combined, SP))

Warn(title) == Append(warnings, [title |-> title, segment |-> seg_pos])

\* the head of the loop over the segments, for the segment seg
BeginSegment(seg) ==
    LET segment_text == Strip(seg.text)
        split == IF aligner = "segment_text"
                 THEN SegSplitChineseSentences(segment_text)
                 ELSE GenSplitChineseSentences(segment_text)
    IN  /\ align_pc = "segments"
        /\ chapter_sentences # <<>>
        /\ segment' = seg
        /\ seg_pos' = seg_pos + 1
        /\ cn_sentences' = IF split = <<>> /\ segment_text # <<>>
                           THEN <<segment_text>> ELSE split
        /\ cn_pos' = 1
        /\ sentence_ids_for_segment' = <<>>
        /\ align_pc' = "units"
        /\ UNCHANGED <<aligner, chapter_sentences, chapter_segments, sent_index,
                       results, warnings>>
        /\ UNCHANGED <<segVars, buildVars, migVars, splitVars, trVars, csVars, cvVars>>

AtUnit == align_pc = "units" /\ cn_pos <= Len(cn_sentences)

\* the loop over the segment's sentences is left
LeaveUnits(new_warnings) ==
    /\ align_pc' = "close"
    /\ warnings' = new_warnings
    /\ UNCHANGED <<aligner, chapter_sentences, chapter_segments, seg_pos, segment,
                   cn_sentences, cn_pos, sent_index, sentence_ids_for_segment,
                   results>>
    /\ UNCHANGED <<segVars, buildVars, migVars, splitVars, trVars, csVars, cvVars>>

RanOutSilently ==
    /\ AtUnit
    /\ ~InRange
    /\ LeaveUnits(warnings)

RanOutOfCanonical ==
    /\ AtUnit
    /\ ~InRange
    /\ LeaveUnits(Warn("Ran out of canonical sentences"))

BlockBoundaryBreak ==
    /\ AtUnit /\ InRange
    /\ BlockMismatch
    /\ sentence_ids_for_segment # <<>>
    /\ LeaveUnits(warnings)

BlockNotLocated ==
    /\ AtUnit /\ InRange
    /\ BlockMismatch
    /\ sentence_ids_for_segment = <<>>
    /\ MatchIndices = {}
    /\ LeaveUnits(Warn("Could not locate sentences for block"))

SkipToBlock ==
    /\ AtUnit /\ InRange
    /\ BlockMismatch
    /\ sentence_ids_for_segment = <<>>
    /\ MatchIndices # {}
    /\ sent_index' = MatchIndex
    /\ UNCHANGED <<aligner, chapter_sentences, chapter_segments, seg_pos, segment,
                   cn_sentences, cn_pos, sentence_ids_for_segment, results,
                   warnings, align_pc>>
    /\ UNCHANGED <<segVars, buildVars, migVars, splitVars, trVars, csVars, cvVars>>

AttributeWithoutAdvance(count) ==
    /\ sentence_ids_for_segment' = sentence_ids_for_segment \o
            [k \in 1..count |-> Entry(sent_index + k - 1).id]
    /\ sent_index' = sent_index
    /\ cn_pos' = cn_pos + 1
    /\ UNCHANGED <<aligner, chapter_sentences, chapter_segments, seg_pos, segment,
                   cn_sentences, results, warnings, align_pc>>
    /\ UNCHANGED <<segVars, buildVars, migVars, splitVars, trVars, csVars, cvVars>>

\* the canonical sentences from the cursor on are given to the segment
Attribute(count) ==
    /\ sentence_ids_for_segment' = sentence_ids_for_segment \o
            [k \in 1..count |-> Entry(sent_index + k - 1).id]
    /\ sent_index' = sent_index + count
    /\ cn_pos' = cn_pos + 1
    /\ UNCHANGED <<aligner, chapter_sentences, chapter_segments, seg_pos, segment,
                   cn_sentences, results, warnings, align_pc>>
    /\ UNCHANGED <<segVars, buildVars, migVars, splitVars, trVars, csVars, cvVars>>

AttributeSpan ==
    /\ AtUnit /\ InRange
    /\ ~BlockMismatch
    /\ SpansMultiple(sent_index, cn_sentences[cn_pos])
    /\ Attribute(2)

AttributeSingle ==
    /\ AtUnit /\ InRange
    /\ ~BlockMismatch
    /\ ~SpansMultiple(sent_index, cn_sentences[cn_pos])
    /\ Attribute(1)

UnitsDone ==
    \/ align_pc = "close"
    \/ align_pc = "units" /\ cn_pos > Len(cn_sentences)

RecordSegment ==
    /\ UnitsDone
    /\ sentence_ids_for_segment # <<>> \/ aligner = "generate"
    /\ results' = Append(results, [id |-> seg_pos,
                                    segment_index |-> seg_pos,
                                    sentence_ids |-> sentence_ids_for_segment,
                                    is_code_block |-> segment.is_code_block])
    /\ align_pc' = "segments"
    /\ UNCHANGED <<aligner, chapter_sentences, chapter_segments, seg_pos, segment,
                   cn_sentences, cn_pos, sent_index, sentence_ids_for_segment,
                   warnings>>
    /\ UNCHANGED <<segVars, buildVars, migVars, splitVars, trVars, csVars, cvVars>>

SkipSegment ==
    /\ UnitsDone
    /\ sentence_ids_for_segment = <<>> /\ aligner = "segment_text"
    /\ warnings' = Warn("Skipping segment with no sentence IDs")
    /\ align_pc' = "segments"
    /\ UNCHANGED <<aligner, chapter_sentences, chapter_segments, seg_pos, segment,
                   cn_sentences, cn_pos, sent_index, sentence_ids_for_segment,
                   results>>
    /\ UNCHANGED <<segVars, buildVars, migVars, splitVars, trVars, csVars, cvVars>>

\* a variant that returns the records with the numbers of their segments
KeepingSegmentNumbers(rs) == rs

\* the renumbering of the records that map_segments_to_sentence_ids returns
Renumbered(rs) ==
    [k \in 1..Len(rs) |-> [rs[k] EXCEPT !.id = k, !.segment_index = k]]

\* no canonical sentences: nothing is returned
NoSentences ==
    /\ align_pc = "segments"
    /\ chapter_sentences = <<>>
    /\ align_pc' = "done"
    /\ warnings' = IF aligner = "generate" THEN Warn("No sentences entries")
                   ELSE warnings
    /\ UNCHANGED <<aligner, chapter_sentences, chapter_segments, seg_pos, segment,
                   cn_sentences, cn_pos, sent_index, sentence_ids_for_segment,
                   results>>
    /\ UNCHANGED <<segVars, buildVars, migVars, splitVars, trVars, csVars, cvVars>>

\* the end of the loop over the segments
ReturnResults ==
    /\ align_pc = "segments"
    /\ chapter_sentences # <<>>
    /\ seg_pos >= Len(chapter_segments)
    /\ align_pc' = "done"
    /\ results' = IF aligner = "segment_text" THEN Renumbered(results) ELSE results
    /\ warnings' = IF aligner = "generate" /\ seg_pos = 0
                   THEN Warn("No segment files found") ELSE warnings
    /\ UNCHANGED <<aligner, chapter_sentences, chapter_segments, seg_pos, segment,
                   cn_sentences, cn_pos, sent_index, sentence_ids_for_segment>>
    /\ UNCHANGED <<segVars, buildVars, migVars, splitVars, trVars, csVars, cvVars>>

UnitStep ==
    \/ RanOutOfCanonical \/ BlockBoundaryBreak \/ BlockNotLocated \/ SkipToBlock
    \/ AttributeSpan \/ AttributeSingle

----------------------------------------------------------------------------
\* The aligner on any canonical sequence and any segments

MaxCanon == 2

MaxSegments == MaxCanon + 1

CanonSources == {<<H>>, <<DOT>>, <<SP>>, <<H, DOT>>}

ObservedTexts == {<<H>>, <<H, DOT>>, <<H, DOT, H>>}

RECURSIVE CanonUpTo(_, _)
CanonUpTo(block_ids, n) ==
    IF n = 0 THEN {<<>>}
    ELSE LET shorter == CanonUpTo(block_ids, n - 1)
         IN  shorter \cup
             {Append(c, [id |-> n, blockId |-> b, source |-> src]) :
                 c \in {x \in shorter : Len(x) = n - 1},
                 b \in block_ids, src \in CanonSources}

\* the segments that may come next: segment_chapter gives every segment the
\* id of its block; the segment files of the migration carry no block and
\* may be empty
ObservedSegments ==
    IF aligner = "segment_text"
    THEN {[text |-> t, block_id |-> b, is_code_block |-> FALSE] :
            t \in ObservedTexts, b \in {1, 2}}
    ELSE {[text |-> t, block_id |-> NoId, is_code_block |-> FALSE] :
            t \in ObservedTexts \cup {<<>>}}

InitAlign ==
    /\ IdleSeg /\ IdleBuild /\ IdleMig /\ IdleSplit /\ IdleTr /\ IdleCs /\ IdleCv
    /\ aligner \in {"segment_text", "generate"}
    /\ chapter_sentences \in
         CanonUpTo(IF aligner = "segment_text" THEN {1, 2} ELSE {1}, MaxCanon)
    /\ chapter_segments = <<>>
    /\ seg_pos = 0
    /\ segment = <<>>
    /\ cn_sentences = <<>>
    /\ cn_pos = 0
    /\ sent_index = 0
    /\ sentence_ids_for_segment = <<>>
    /\ results = <<>>
    /\ warnings = <<>>
    /\ align_pc = "segments"

\* the next segment is read
ObserveSegment ==
    /\ seg_pos < MaxSegments
    /\ \E seg \in ObservedSegments : BeginSegment(seg)

NextAlign ==
    \/ NoSentences \/ ObserveSegment \/ UnitStep
    \/ RecordSegment \/ SkipSegment \/ ReturnResults

SpecAlign == InitAlign /\ [][NextAlign]_vars

----------------------------------------------------------------------------
\* C5, C6, C7

\* the sentence ids of the records, in record order, followed by those of
\* the segment in progress
RECURSIVE RecordedIds(_)
RecordedIds(rs) ==
    IF rs = <<>> THEN <<>> ELSE Head(rs).sentence_ids \o RecordedIds(Tail(rs))

AttributedIds ==
    RecordedIds(results) \o
        (IF align_pc \in {"units", "close"} THEN sentence_ids_for_segment ELSE <<>>)

\* the canonical index of a sentence id (0 for an id that is not canonical)
CanonicalIndex(id) ==
    IF \E k \in 1..Len(chapter_sentences) : chapter_sentences[k].id = id
    THEN CHOOSE k \in 1..Len(chapter_sentences) : chapter_sentences[k].id = id
    ELSE 0

StrictlyIncreasing(ids) ==
    \A k \in 1..(Len(ids) - 1) : CanonicalIndex(ids[k]) < CanonicalIndex(ids[k + 1])

\* C5: the sentence ids of the records, concatenated in record order, are
\* strictly increasing in canonical index (so none occurs twice, in one
\* segment or across segments), and the canonical cursor never moves back.
OrderedMapping ==
    [][/\ StrictlyIncreasing(AttributedIds')
       /\ sent_index' >= sent_index]_vars

\* C5 witness: a finished run with two records, one of them holding two ids
OrderedMappingWitness ==
    /\ align_pc = "done"
    /\ Len(results) >= 2
    /\ \E k \in 1..Len(results) : Len(results[k].sentence_ids) = 2

AttributedIdSet ==
    {RecordedIds(results)[k] : k \in 1..Len(RecordedIds(results))}
    \cup {sentence_ids_for_segment[k] : k \in 1..Len(sentence_ids_for_segment)}

RanOutReported(w, seg) ==
    w # <<>> /\ w[Len(w)] = [title |-> "Ran out of canonical sentences", segment |-> seg]

\* C6: every attributed id is the id of a canonical sentence; once the
\* cursor has reached the end of the canonical sequence no id is attributed
\* any more, a unit met there is answered by the "Ran out of canonical
\* sentences" diagnostic and the end of the segment, and the run goes on to
\* its end (some step is possible until the records are returned).
RanOutStops ==
    /\ [](\A k \in 1..Len(AttributedIds) : CanonicalIndex(AttributedIds[k]) > 0)
    /\ []((align_pc \in {"segments", "units", "close"} /\ ~InRange)
            => ENABLED (NoSentences \/ ObserveSegment \/ RanOutOfCanonical
                        \/ RecordSegment \/ SkipSegment \/ ReturnResults))
    /\ [][~InRange => AttributedIdSet' = AttributedIdSet]_vars
    /\ [][(AtUnit /\ ~InRange) =>
            (/\ RanOutReported(warnings', seg_pos)
             /\ Len(warnings') = Len(warnings) + 1
             /\ align_pc' = "close")]_vars

\* C6 witness: the cursor ran out, the diagnostic is there, records returned
RanOutStopsWitness ==
    /\ align_pc = "done"
    /\ results # <<>>
    /\ ~InRange
    /\ \E k \in 1..Len(warnings) : warnings[k].title = "Ran out of canonical sentences"

\* the condition of C7 for attributing two canonical sentences to one unit
SpanClaimed(i, cn_sentence) ==
    /\ i + 1 < Len(chapter_sentences)
    /\ Contains(NormalizeForComparison(cn_sentence),
                NormalizeForComparison(Entry(i).source))
    /\ Contains(RemoveWhitespace(NormalizeForComparison(cn_sentence)),
                RemoveWhitespace(NormalizeForComparison(Entry(i).source)
                                 \o NormalizeForComparison(Entry(i + 1).source)))

\* C7 (as claimed): a unit that contains the canonical sentence at the
\* cursor and that sentence joined with the next one receives both ids, the
\* canonical cursor moving by 2 and the unit cursor by 1; any other unit
\* receives the one id at the cursor, both cursors moving by 1.
SpanMultipleDetection ==
    [][(AtUnit /\ InRange /\ ~BlockMismatch) =>
        LET count == IF SpanClaimed(sent_index, cn_sentences[cn_pos]) THEN 2 ELSE 1
        IN  /\ sentence_ids_for_segment' = sentence_ids_for_segment \o
                    [k \in 1..count |-> Entry(sent_index + k - 1).id]
            /\ sent_index' = sent_index + count
            /\ cn_pos' = cn_pos + 1]_vars

----------------------------------------------------------------------------
\* The aligner of segment-text.py on the segments and the canonical
\* sentences made of one chapter

MaxAlignedChapterLen == 4

ChapterAlphabet == {QO, DOT, H, NL}

InitChapter ==
    /\ IdleSeg /\ IdleAlign /\ IdleMig /\ IdleSplit /\ IdleTr /\ IdleCs /\ IdleCv
    /\ blocks = <<>>
    /\ sentence_records = <<>>
    /\ sentence_counter = 1
    /\ build_pc = "blocks"

\* build-sentences.py reads one more block of the chapter: a code or text
\* block, or a block whose id or type is missing
LoadBlock ==
    /\ build_pc = "blocks"
    /\ \E block \in BlocksWithin(ChapterAlphabet,
                             MaxAlignedChapterLen - ChapterCost(blocks),
                             Len(blocks) + 1) :
            /\ block.type # "list"
            /\ ReadBlock(block)

\* segment-text.py starts on the chapter: segment_chapter and
\* load_chapter_sentences
SegmentTheChapter ==
    /\ build_pc = "done"
    /\ align_pc = "idle"
    /\ aligner' = "segment_text"
    /\ chapter_segments' = SegmentChapter(blocks, 1)
    /\ chapter_sentences' = sentence_records
    /\ align_pc' = "segments"
    /\ UNCHANGED <<seg_pos, segment, cn_sentences, cn_pos, sent_index,
                   sentence_ids_for_segment, results, warnings>>
    /\ UNCHANGED <<segVars, buildVars, migVars, splitVars, trVars, csVars, cvVars>>

\* the next segment of the chapter
ReadSegment ==
    /\ seg_pos < Len(chapter_segments)
    /\ BeginSegment(chapter_segments[seg_pos + 1])

NextChapter ==
    \/ LoadBlock \/ WriteSentences \/ SegmentTheChapter
    \/ NoSentences \/ ReadSegment \/ UnitStep
    \/ RecordSegment \/ SkipSegment \/ ReturnResults

SpecChapter == InitChapter /\ [][NextChapter]_vars

\* how often the records returned reference the sentence id
RECURSIVE References(_, _)
References(rs, id) ==
    IF rs = <<>> THEN 0
    ELSE Len(SelectSeq(Head(rs).sentence_ids, LAMBDA x : x = id))
         + References(Tail(rs), id)

\* C4 (as claimed): with segments and canonical sentences made of the same
\* chapter blocks, the records returned reference every canonical sentence
\* id exactly once.
TotalCoverage ==
    align_pc = "done" =>
        \A k \in 1..Len(chapter_sentences) :
            References(results, chapter_sentences[k].id) = 1

----------------------------------------------------------------------------
\* migrate_chapter: migrate_sentences.py ("current") and
\* migrate_sentences_legacy.py ("legacy").  Sentence ids are the numbers k of
\* c1-sk; old_idx and new_idx count from 0 as in the code.  A transcript
\* entry is [source, ipa, tupa], a translation entry [source, translation];
\* ipa, tupa and translation strings are sequences of their
\* whitespace-separated tokens.

\* normalize_text: "".join(text.split())
NormalizeText(s) == RemoveWhitespace(s)

\* count_han_chars
CountHanChars(s) == Len(SelectSeq(s, LAMBDA c : c \in {H, YUE}))

PunctuationTokens == {".", ",", "!", "?", "DOT", "COMMA", "EX", "QM"}

Put(f, k, v) == (k :> v) @@ f

HasKey(f, k) == k \in DOMAIN f

RECURSIVE ConcatAll(_)
ConcatAll(seqs) == IF seqs = <<>> THEN <<>> ELSE Head(seqs) \o ConcatAll(Tail(seqs))

\* the first loop of split_transcript_data over one segment: tokens are taken
\* until count syllables are grabbed; punctuation tokens do not count
RECURSIVE GrabSyllables(_, _, _, _, _)
GrabSyllables(tokens, idx, count, grabbed, cur) ==
    IF grabbed < count /\ idx <= Len(tokens)
    THEN GrabSyllables(tokens, idx + 1, count,
                       IF tokens[idx] \in PunctuationTokens THEN grabbed ELSE grabbed + 1,
                       Append(cur, tokens[idx]))
    ELSE [idx |-> idx, cur |-> cur]

\* the second loop: the punctuation that follows is taken along
RECURSIVE GrabPunctuation(_, _, _)
GrabPunctuation(tokens, idx, cur) ==
    IF idx <= Len(tokens) /\ tokens[idx] \in PunctuationTokens
    THEN GrabPunctuation(tokens, idx + 1, Append(cur, tokens[idx]))
    ELSE [idx |-> idx, cur |-> cur]

\* a variant of the loop that leaves out the tokens no segment has taken
RECURSIVE SplitStreamDroppingLeftovers(_, _, _, _, _)
SplitStreamDroppingLeftovers(tokens, counts, i, idx, out) ==
    IF i > Len(counts) THEN out
    ELSE
        LET a == GrabSyllables(tokens, idx, counts[i], 0, <<>>)
            b == GrabPunctuation(tokens, a.idx, a.cur)
        IN  SplitStreamDroppingLeftovers(tokens, counts, i + 1, b.idx, Append(out, b.cur))

\* the loop over the segments, for one token stream
RECURSIVE SplitStream(_, _, _, _, _)
SplitStream(tokens, counts, i, idx, out) ==
    IF i > Len(counts) THEN
        IF idx <= Len(tokens) /\ out # <<>>
        THEN [out EXCEPT ![Len(out)] = @ \o SubSeq(tokens, idx, Len(tokens))]
        ELSE out
    ELSE
        LET a == GrabSyllables(tokens, idx, counts[i], 0, <<>>)
            b == GrabPunctuation(tokens, a.idx, a.cur)
        IN  SplitStream(tokens, counts, i + 1, b.idx, Append(out, b.cur))

\* the terminator put at a split point before a sentence that starts with a
\* newline; the legacy version does it for the ipa only, and for an empty
\* part too
WithBoundaryTerminators(which, parts, new_segments, stream) ==
    [i \in 1..Len(parts) |->
        IF /\ i < Len(parts)
           /\ new_segments[i + 1] # <<>> /\ new_segments[i + 1][1] = NL
           /\ (which = "current" => parts[i] # <<>>)
           /\ (which = "legacy" => stream = "ipa")
           /\ ~(parts[i] # <<>> /\ parts[i][Len(parts[i])] = ".")
        THEN Append(parts[i], ".")
        ELSE parts[i]]

\* split_transcript_data
SplitTranscriptData(which, original_ipa, original_tupa, new_segments) ==
    LET segment_char_counts ==
            [i \in 1..Len(new_segments) |-> CountHanChars(new_segments[i])]
        total_chars == Len(SelectSeq(ConcatAll(new_segments), LAMBDA c : c \in {H, YUE}))
        ipa_results == WithBoundaryTerminators(which,
            SplitStream(original_ipa, segment_char_counts, 1, 1, <<>>),
            new_segments, "ipa")
        tupa_results == WithBoundaryTerminators(which,
            SplitStream(original_tupa, segment_char_counts, 1, 1, <<>>),
            new_segments, "tupa")
    IN  [i \in 1..Len(new_segments) |->
            IF total_chars = 0 THEN [ipa |-> <<>>, tupa |-> <<>>]
            ELSE [ipa |-> ipa_results[i], tupa |-> tupa_results[i]]]

\* merge_transcripts, for entries without choices
MergeTranscripts(entries) ==
    IF Len(entries) = 1 THEN entries[1]
    ELSE [source |-> ConcatAll([k \in 1..Len(entries) |-> entries[k].source]),
          ipa |-> ConcatAll([k \in 1..Len(entries) |-> entries[k].ipa]),
          tupa |-> ConcatAll([k \in 1..Len(entries) |-> entries[k].tupa])]

\* merge_translations
MergeTranslations(entries) ==
    IF Len(entries) = 1 THEN entries[1]
    ELSE [source |-> ConcatAll([k \in 1..Len(entries) |-> entries[k].source]),
          translation |-> ConcatAll([k \in 1..Len(entries) |-> entries[k].translation])]

\* a variant of the accumulation that also takes a longer text as a match
RECURSIVE AccumulatePast(_, _, _, _)
AccumulatePast(list, curr, accumulated_text, target) ==
    IF curr >= Len(list) THEN [match_found |-> FALSE, curr |-> curr]
    ELSE LET longer == accumulated_text \o NormalizeText(list[curr + 1].source)
         IN  IF Len(longer) >= Len(target) THEN [match_found |-> TRUE, curr |-> curr]
             ELSE AccumulatePast(list, curr + 1, longer, target)

\* the accumulation loops of migrate_chapter: sentences from index curr on
\* are added to the accumulated text until it equals the target or grows
\* longer
RECURSIVE AccumulateUntil(_, _, _, _)
AccumulateUntil(list, curr, accumulated_text, target) ==
    IF curr >= Len(list) THEN [match_found |-> FALSE, curr |-> curr]
    ELSE LET longer == accumulated_text \o NormalizeText(list[curr + 1].source)
         IN  IF longer = target THEN [match_found |-> TRUE, curr |-> curr]
             ELSE IF Len(longer) > Len(target) THEN [match_found |-> FALSE, curr |-> curr]
             ELSE AccumulateUntil(list, curr + 1, longer, target)

Placeholder(source) == [source |-> source, ipa |-> <<>>, tupa |-> <<>>]

IdsOf(list, from, to) == [k \in 1..(to - from + 1) |-> list[from + k - 1].id]

\* The annotation files before the migration hold, under the id of every
\* old sentence, a transcript with one syllable token per ideograph and one
\* "." per terminator, and a translation of one token.
IpaSyllables == <<"i1", "i2", "i3", "i4", "i5">>
TupaSyllables == <<"u1", "u2", "u3", "u4", "u5">>
TranslationWords == <<"e1", "e2", "e3", "e4", "e5">>

TokensOf(source, syllable) ==
    LET marked == SelectSeq(source, LAMBDA c : c \in {H, YUE, DOT})
    IN  [i \in 1..Len(marked) |-> IF marked[i] = DOT THEN "." ELSE syllable]

OldTranscript(olds) ==
    [k \in 1..Len(olds) |->
        [source |-> olds[k].source,
         ipa |-> TokensOf(olds[k].source, IpaSyllables[k]),
         tupa |-> TokensOf(olds[k].source, TupaSyllables[k])]]

OldTrans(olds) ==
    [k \in 1..Len(olds) |->
        [source |-> olds[k].source, translation |-> <<TranslationWords[k]>>]]

\* one iteration of the alignment loop of migrate_sentences.py, on the
\* cursors and maps st; kind tells which branch was taken
CurrentStep(olds, news, st) ==
    IF st.new_idx >= Len(news) THEN [st EXCEPT !.kind = "end"]
    ELSE
    LET new_s == news[st.new_idx + 1]
        new_source_norm == NormalizeText(new_s.source)
        placeholder == [st EXCEPT
            !.new_to_data_map = Put(@, new_s.id, Placeholder(new_s.source)),
            !.new_idx = @ + 1]
    IN
    IF st.old_idx >= Len(olds) THEN [placeholder EXCEPT !.kind = "exhausted"]
    ELSE
    LET old_s == olds[st.old_idx + 1]
        old_data == OldTranscript(olds)
        old_source_norm == NormalizeText(old_s.source)
        merged == AccumulateUntil(olds, st.old_idx + 1, old_source_norm, new_source_norm)
        split == AccumulateUntil(news, st.new_idx + 1, new_source_norm, old_source_norm)
    IN
    IF new_source_norm = old_source_norm THEN
        [st EXCEPT
            !.new_to_data_map = Put(@, new_s.id, old_data[st.old_idx + 1]),
            !.new_to_old_ids_map = Put(@, new_s.id, <<old_s.id>>),
            !.old_idx = @ + 1, !.new_idx = @ + 1, !.kind = "exact"]
    ELSE IF StartsWith(new_source_norm, old_source_norm) /\ merged.match_found THEN
        [st EXCEPT
            !.new_to_data_map = Put(@, new_s.id,
                [MergeTranscripts(SubSeq(old_data, st.old_idx + 1, merged.curr + 1))
                    EXCEPT !.source = new_s.source]),
            !.new_to_old_ids_map = Put(@, new_s.id,
                IdsOf(olds, st.old_idx + 1, merged.curr + 1)),
            !.old_idx = merged.curr + 1, !.new_idx = @ + 1, !.kind = "merge"]
    ELSE IF StartsWith(old_source_norm, new_source_norm) /\ split.match_found THEN
        LET accumulated_new == SubSeq(news, st.new_idx + 1, split.curr + 1)
            split_results == SplitTranscriptData("current",
                old_data[st.old_idx + 1].ipa, old_data[st.old_idx + 1].tupa,
                [i \in 1..Len(accumulated_new) |-> accumulated_new[i].source])
            entries == [i \in 1..Len(accumulated_new) |->
                [source |-> accumulated_new[i].source,
                 ipa |-> split_results[i].ipa, tupa |-> split_results[i].tupa]]
        IN  [st EXCEPT
                !.new_to_data_map =
                    [n \in (DOMAIN @) \cup {accumulated_new[i].id : i \in 1..Len(accumulated_new)} |->
                        IF \E i \in 1..Len(accumulated_new) : accumulated_new[i].id = n
                        THEN entries[CHOOSE i \in 1..Len(accumulated_new) : accumulated_new[i].id = n]
                        ELSE @[n]],
                !.new_to_old_ids_map =
                    [n \in (DOMAIN @) \cup {accumulated_new[i].id : i \in 1..Len(accumulated_new)} |->
                        IF \E i \in 1..Len(accumulated_new) : accumulated_new[i].id = n
                        THEN <<old_s.id>> ELSE @[n]],
                !.old_idx = @ + 1, !.new_idx = split.curr + 1, !.kind = "split"]
    ELSE [placeholder EXCEPT !.kind = "fallback"]

\* one iteration of the alignment loop of migrate_sentences_legacy.py
LegacyStep(olds, news, st) ==
    IF st.old_idx >= Len(olds) \/ st.new_idx >= Len(news) THEN [st EXCEPT !.kind = "end"]
    ELSE
    LET old_s == olds[st.old_idx + 1]
        new_s == news[st.new_idx + 1]
        norm_old == NormalizeText(old_s.source)
        norm_new == NormalizeText(new_s.source)
        split == AccumulateUntil(news, st.new_idx + 1, norm_new, norm_old)
        merged == AccumulateUntil(olds, st.old_idx + 1, norm_old, norm_new)
    IN
    IF norm_old = norm_new THEN
        [st EXCEPT !.id_map = Put(@, old_s.id, <<new_s.id>>),
                   !.old_idx = @ + 1, !.new_idx = @ + 1, !.kind = "exact"]
    ELSE IF StartsWith(norm_old, norm_new) /\ split.match_found THEN
        [st EXCEPT !.id_map = Put(@, old_s.id, IdsOf(news, st.new_idx + 1, split.curr + 1)),
                   !.old_idx = @ + 1, !.new_idx = split.curr + 1, !.kind = "split"]
    ELSE IF StartsWith(norm_new, norm_old) /\ merged.match_found THEN
        [st EXCEPT !.id_map =
                        [o \in (DOMAIN @) \cup {olds[k].id : k \in (st.old_idx + 1)..(merged.curr + 1)} |->
                            IF \E k \in (st.old_idx + 1)..(merged.curr + 1) : olds[k].id = o
                            THEN <<new_s.id>> ELSE @[o]],
                   !.old_idx = merged.curr + 1, !.new_idx = @ + 1, !.kind = "merge"]
    ELSE
        \* the warning is printed and the loop goes round with the same cursors
        [st EXCEPT !.mig_log = @ \cup {[title |-> "Warning: Mismatch",
                                         old |-> old_s.id, new |-> new_s.id]},
                   !.kind = "mismatch"]

LoopStep(which, olds, news, st) ==
    IF which = "current" THEN CurrentStep(olds, news, st) ELSE LegacyStep(olds, news, st)

StartOfLoop ==
    [old_idx |-> 0, new_idx |-> 0, new_to_data_map |-> <<>>,
     new_to_old_ids_map |-> <<>>, id_map |-> <<>>, mig_log |-> {}, kind |-> "start"]

\* the alignment loop run to its end, or to the mismatch it cannot leave
RECURSIVE AlignmentLoop(_, _, _, _)
AlignmentLoop(which, olds, news, st) ==
    LET next == LoopStep(which, olds, news, st)
    IN  IF next.kind \in {"end", "mismatch"} THEN next
        ELSE AlignmentLoop(which, olds, news, next)

\* the transcripts file migrate_sentences.py writes
CurrentTranscripts(news, data) ==
    [n \in {news[k].id : k \in 1..Len(news)} \cap DOMAIN data |-> data[n]]

\* the translations file migrate_sentences.py writes: the loop over the new
\* sentences from the k-th on
RECURSIVE CurrentTranslations(_, _, _, _, _, _, _)
CurrentTranslations(news, n2o, data, old_translations, k, used, out) ==
    IF k > Len(news) THEN out
    ELSE
    LET new_s == news[k]
        nid == new_s.id
        empty == [source |-> new_s.source, translation |-> <<>>]
    IN
    IF HasKey(n2o, nid) THEN
        LET old_ids == n2o[nid]
            present == SelectSeq(old_ids, LAMBDA oid : HasKey(old_translations, oid))
            old_entries == [i \in 1..Len(present) |-> old_translations[present[i]]]
            merged_entry == [MergeTranslations(old_entries) EXCEPT !.source = new_s.source]
        IN  IF old_entries = <<>> THEN
                CurrentTranslations(news, n2o, data, old_translations, k + 1, used, out)
            ELSE IF Len(old_ids) = 1 /\ old_ids[1] \in used THEN
                CurrentTranslations(news, n2o, data, old_translations, k + 1, used,
                                    Put(out, nid, empty))
            ELSE
                CurrentTranslations(news, n2o, data, old_translations, k + 1,
                                    used \cup {old_ids[i] : i \in 1..Len(old_ids)},
                                    Put(out, nid, merged_entry))
    ELSE IF HasKey(data, nid) THEN
        CurrentTranslations(news, n2o, data, old_translations, k + 1, used,
                            Put(out, nid, empty))
    ELSE CurrentTranslations(news, n2o, data, old_translations, k + 1, used, out)

\* the pairs (old id, position in its list, new id) of id_map, in the order
\* in which the loops of the legacy version meet them
RECURSIVE MappedPairs(_, _)
MappedPairs(idm, o) ==
    IF DOMAIN idm = {} \/ \A x \in DOMAIN idm : x < o THEN <<>>
    ELSE IF ~HasKey(idm, o) THEN MappedPairs(idm, o + 1)
    ELSE [i \in 1..Len(idm[o]) |-> [old_id |-> o, idx |-> i, new_id |-> idm[o][i]]]
            \o MappedPairs(idm, o + 1)

\* merge_candidates after the pairs up to the k-th: new id -> old ids
RECURSIVE MergeCandidates(_, _)
MergeCandidates(pairs, k) ==
    IF k = 0 THEN <<>>
    ELSE LET before == MergeCandidates(pairs, k - 1)
             p == pairs[k]
         IN  IF HasKey(before, p.new_id)
             THEN Put(before, p.new_id, Append(before[p.new_id], p.old_id))
             ELSE Put(before, p.new_id, <<p.old_id>>)

\* the pair that creates the entry of a new id: the first one that maps to it
Creates(pairs, k) == \A j \in 1..(k - 1) : pairs[j].new_id # pairs[k].new_id

\* the translations file migrate_sentences_legacy.py writes
LegacyTranslations(news, idm, old_translations) ==
    LET pairs == SelectSeq(MappedPairs(idm, 1),
                           LAMBDA p : HasKey(old_translations, p.old_id))
        merge_candidates == MergeCandidates(pairs, Len(pairs))
        created(k) ==
            LET p == pairs[k]
                entry == IF HasKey(old_translations, p.new_id)
                         THEN old_translations[p.new_id]
                         ELSE [old_translations[p.old_id] EXCEPT !.translation = <<>>]
            IN  [entry EXCEPT !.source = news[p.new_id].source]
    IN  [n \in DOMAIN merge_candidates |->
            LET k == CHOOSE k \in 1..Len(pairs) : pairs[k].new_id = n /\ Creates(pairs, k)
                old_ids == merge_candidates[n]
            IN  IF Len(old_ids) > 1
                THEN [created(k) EXCEPT !.translation =
                        ConcatAll([i \in 1..Len(old_ids) |-> old_translations[old_ids[i]].translation])]
                ELSE created(k)]

\* the existing entry under the new id is kept by the legacy version when
\* its source is that of the new sentence and its syllable count is between
\* 0.7 and 1.5 times the number of ideographs
KeepsExistingTranscript(old_entry, new_source) ==
    LET syllables == Len(SelectSeq(old_entry.ipa, LAMBDA t : t \notin PunctuationTokens))
        sent_han_count == CountHanChars(new_source)
    IN  /\ NormalizeText(old_entry.source) = NormalizeText(new_source)
        /\ 10 * syllables >= 7 * sent_han_count
        /\ 10 * syllables <= 15 * sent_han_count

\* the transcripts file migrate_sentences_legacy.py writes
LegacyTranscripts(news, idm, old_transcripts) ==
    LET pairs == MappedPairs(idm, 1)
        merge_candidates == MergeCandidates(pairs, Len(pairs))
        created(k) ==
            LET p == pairs[k]
                mapped == idm[p.old_id]
                original_entry == old_transcripts[p.old_id]
                split_data == SplitTranscriptData("legacy", original_entry.ipa,
                                original_entry.tupa,
                                [i \in 1..Len(mapped) |-> news[mapped[i]].source])
                next_source == news[mapped[p.idx + 1]].source
                split_ipa ==
                    IF /\ p.idx < Len(mapped)
                       /\ next_source # <<>> /\ next_source[1] = NL
                       /\ ~(split_data[p.idx].ipa # <<>>
                            /\ split_data[p.idx].ipa[Len(split_data[p.idx].ipa)] = ".")
                    THEN Append(split_data[p.idx].ipa, ".")
                    ELSE split_data[p.idx].ipa
                entry ==
                    IF /\ HasKey(old_transcripts, p.new_id)
                       /\ KeepsExistingTranscript(old_transcripts[p.new_id],
                                                  news[p.new_id].source)
                    THEN old_transcripts[p.new_id]
                    ELSE IF Len(mapped) > 1
                    THEN [original_entry EXCEPT !.ipa = split_ipa,
                                                !.tupa = split_data[p.idx].tupa]
                    ELSE original_entry
            IN  [entry EXCEPT !.source = news[p.new_id].source]
    IN  [n \in DOMAIN merge_candidates |->
            LET k == CHOOSE k \in 1..Len(pairs) : pairs[k].new_id = n /\ Creates(pairs, k)
                old_ids == merge_candidates[n]
            IN  IF Len(old_ids) > 1
                THEN [created(k) EXCEPT
                        !.ipa = ConcatAll([i \in 1..Len(old_ids) |-> old_transcripts[old_ids[i]].ipa]),
                        !.tupa = ConcatAll([i \in 1..Len(old_ids) |-> old_transcripts[old_ids[i]].tupa])]
                ELSE created(k)]

----------------------------------------------------------------------------
\* migrate_chapter on any old and new sentence sequences

MaxMigLen == 3

MigSources == {<<H>>, <<DOT>>, <<H, SP, DOT>>}

RECURSIVE SentenceLists(_)
SentenceLists(n) ==
    IF n = 0 THEN {<<>>}
    ELSE LET shorter == SentenceLists(n - 1)
         IN  shorter \cup
             {Append(l, [id |-> n, source |-> src]) :
                 l \in {x \in shorter : Len(x) = n - 1}, src \in MigSources}

\* the translations file before the migration: the external services fill
\* it sentence by sentence, so it holds the entries of the first j old
\* sentences
TranslationFiles(olds) == {SubSeq(OldTrans(olds), 1, j) : j \in 0..Len(olds)}

InitMig ==
    /\ IdleSeg /\ IdleBuild /\ IdleAlign /\ IdleSplit /\ IdleTr /\ IdleCs /\ IdleCv
    /\ version \in {"current", "legacy"}
    /\ old_sentences \in SentenceLists(MaxMigLen)
    /\ new_sentences \in SentenceLists(MaxMigLen)
    /\ old_translations_map \in TranslationFiles(old_sentences)
    /\ old_idx = 0
    /\ new_idx = 0
    /\ new_to_data_map = <<>>
    /\ new_to_old_ids_map = <<>>
    /\ id_map = <<>>
    /\ mig_log = {}
    /\ new_transcript = <<>>
    /\ new_trans = <<>>
    /\ mig_pc = "loop"

Cursors ==
    [old_idx |-> old_idx, new_idx |-> new_idx, new_to_data_map |-> new_to_data_map,
     new_to_old_ids_map |-> new_to_old_ids_map, id_map |-> id_map,
     mig_log |-> mig_log, kind |-> "start"]

NextIteration == LoopStep(version, old_sentences, new_sentences, Cursors)

\* one iteration of the loop: the cursors and the maps it leaves
Iterate ==
    /\ old_idx' = NextIteration.old_idx
    /\ new_idx' = NextIteration.new_idx
    /\ new_to_data_map' = NextIteration.new_to_data_map
    /\ new_to_old_ids_map' = NextIteration.new_to_old_ids_map
    /\ id_map' = NextIteration.id_map
    /\ mig_log' = NextIteration.mig_log
    /\ UNCHANGED <<version, old_sentences, new_sentences, old_translations_map,
                   new_transcript, new_trans, mig_pc>>
    /\ UNCHANGED <<segVars, buildVars, alignVars, splitVars, trVars, csVars, cvVars>>

OldExhausted ==
    /\ mig_pc = "loop"
    /\ NextIteration.kind = "exhausted"
    /\ Iterate

ExactMatch ==
    /\ mig_pc = "loop"
    /\ NextIteration.kind = "exact"
    /\ Iterate

MergeMatch ==
    /\ mig_pc = "loop"
    /\ NextIteration.kind = "merge"
    /\ Iterate

SplitMatch ==
    /\ mig_pc = "loop"
    /\ NextIteration.kind = "split"
    /\ Iterate

FallbackPlaceholder ==
    /\ mig_pc = "loop"
    /\ NextIteration.kind = "fallback"
    /\ Iterate

MismatchWarning ==
    /\ mig_pc = "loop"
    /\ NextIteration.kind = "mismatch"
    /\ Iterate

\* the loop condition fails
LoopEnds ==
    /\ mig_pc = "loop"
    /\ NextIteration.kind = "end"
    /\ mig_pc' = "annotations"
    /\ UNCHANGED <<version, old_sentences, new_sentences, old_translations_map,
                   old_idx, new_idx, new_to_data_map, new_to_old_ids_map,
                   id_map, mig_log, new_transcript, new_trans>>
    /\ UNCHANGED <<segVars, buildVars, alignVars, splitVars, trVars, csVars, cvVars>>

\* the transcripts and the translations files are rewritten
WriteAnnotations ==
    /\ mig_pc = "annotations"
    /\ new_transcript' =
            IF version = "current"
            THEN CurrentTranscripts(new_sentences, new_to_data_map)
            ELSE LegacyTranscripts(new_sentences, id_map, OldTranscript(old_sentences))
    /\ new_trans' =
            IF version = "current"
            THEN CurrentTranslations(new_sentences, new_to_old_ids_map, new_to_data_map,
                                     old_translations_map, 1, {}, <<>>)
            ELSE LegacyTranslations(new_sentences, id_map, old_translations_map)
    /\ mig_pc' = "done"
    /\ UNCHANGED <<version, old_sentences, new_sentences, old_translations_map,
                   old_idx, new_idx, new_to_data_map, new_to_old_ids_map,
                   id_map, mig_log>>
    /\ UNCHANGED <<segVars, buildVars, alignVars, splitVars, trVars, csVars, cvVars>>

NextMig ==
    \/ OldExhausted \/ ExactMatch \/ MergeMatch \/ SplitMatch
    \/ FallbackPlaceholder \/ MismatchWarning \/ LoopEnds \/ WriteAnnotations

SpecMig == InitMig /\ [][NextMig]_vars

----------------------------------------------------------------------------
\* The correspondences an alignment has recorded, read off its maps st

SortedIds(S) ==
    CHOOSE q \in [1..Cardinality(S) -> S] :
        \A i, j \in 1..Cardinality(S) : i < j => q[i] < q[j]

\* one old sentence mapped to several consecutive new ones
Splits(which, st) ==
    IF which = "current"
    THEN LET parts(o) == {n \in DOMAIN st.new_to_old_ids_map :
                              st.new_to_old_ids_map[n] = <<o>>}
         IN  {[old |-> o, new |-> SortedIds(parts(o))] :
                 o \in {x \in 1..MaxMigLen + 1 : Cardinality(parts(x)) > 1}}
    ELSE {[old |-> o, new |-> st.id_map[o]] :
             o \in {x \in DOMAIN st.id_map : Len(st.id_map[x]) > 1}}

\* several consecutive old sentences mapped to one new one
Merges(which, st) ==
    IF which = "current"
    THEN {[old |-> st.new_to_old_ids_map[n], new |-> n] :
             n \in {x \in DOMAIN st.new_to_old_ids_map :
                        Len(st.new_to_old_ids_map[x]) > 1}}
    ELSE LET parts(n) == {o \in DOMAIN st.id_map : st.id_map[o] = <<n>>}
         IN  {[old |-> SortedIds(parts(n)), new |-> n] :
                 n \in {x \in 1..MaxMigLen + 1 : Cardinality(parts(x)) > 1}}

\* the same alignment run with the new sequence as the old one and the old
\* sequence as the new one
ReverseAlignment == AlignmentLoop(version, new_sentences, old_sentences, StartOfLoop)

\* C8: every split of an old sentence o into new sentences n1..nk that the
\* alignment of the old sequence against the new one has recorded is
\* recorded as the merge of n1..nk into o by the alignment of the new
\* sequence against the old one.
SplitMergeRoundTrip ==
    \A s \in Splits(version, Cursors) :
        [old |-> s.new, new |-> s.old] \in Merges(version, ReverseAlignment)

\* the sentences at the cursors match neither exactly, nor as a split, nor
\* as a merge
AtMismatch ==
    /\ mig_pc = "loop"
    /\ old_idx < Len(old_sentences)
    /\ new_idx < Len(new_sentences)
    /\ NextIteration.kind \in {"fallback", "mismatch"}

PairedPositionally(o, n) ==
    IF version = "current"
    THEN HasKey(new_to_old_ids_map', n) /\ new_to_old_ids_map'[n] = <<o>>
    ELSE HasKey(id_map', o) /\ id_map'[o] = <<n>>

\* the old sentences whose annotation reaches some entry of the new files
Carried ==
    IF version = "current"
    THEN UNION {{new_to_old_ids_map[n][i] : i \in 1..Len(new_to_old_ids_map[n])} :
                   n \in DOMAIN new_to_old_ids_map}
    ELSE DOMAIN id_map

\* C9: at a mismatch the step of migrate_chapter emits a mismatch
\* diagnostic, pairs the old sentence at the old cursor with the new
\* sentence at the new cursor and advances both cursors by one; and once
\* both sequences have been walked no old sentence is left without a new
\* entry that carries its annotation.
MismatchFallback ==
    /\ [][AtMismatch =>
            /\ \E w \in mig_log' \ mig_log :
                    /\ w.old = old_sentences[old_idx + 1].id
                    /\ w.new = new_sentences[new_idx + 1].id
            /\ PairedPositionally(old_sentences[old_idx + 1].id,
                                  new_sentences[new_idx + 1].id)
            /\ old_idx' = old_idx + 1
            /\ new_idx' = new_idx + 1]_vars
    /\ []((mig_pc = "done" /\ Len(old_sentences) <= Len(new_sentences)) =>
            \A k \in 1..Len(old_sentences) : old_sentences[k].id \in Carried)

\* C10: when a split has been recorded, each of its new ids that has an
\* entry under its own key in the annotation files read keeps the ipa,
\* tupa and translation of that entry in the files written.
PreferExistingEntries ==
    mig_pc = "done" =>
        \A s \in Splits(version, Cursors) :
            \A i \in 1..Len(s.new) :
                LET n == s.new[i]
                IN  /\ HasKey(OldTranscript(old_sentences), n) =>
                        /\ HasKey(new_transcript, n)
                        /\ new_transcript[n].ipa = OldTranscript(old_sentences)[n].ipa
                        /\ new_transcript[n].tupa = OldTranscript(old_sentences)[n].tupa
                    /\ HasKey(old_translations_map, n) =>
                        /\ HasKey(new_trans, n)
                        /\ new_trans[n].translation = old_translations_map[n].translation

----------------------------------------------------------------------------
\* the ids of the regenerated canonical sentences
NewIds == {new_sentences[k].id : k \in 1..Len(new_sentences)}

\* C11: when migrate_sentences.py has rewritten the annotation files, the
\* keys of the transcripts file and the keys of the translations file are
\* exactly the ids of the regenerated canonical sentences.
KeyedByCanonicalIds ==
    (mig_pc = "done" /\ version = "current") =>
        /\ DOMAIN new_transcript = NewIds
        /\ DOMAIN new_trans = NewIds

----------------------------------------------------------------------------
\* split_transcript_data on any token streams and any new sentence sources

MaxTokens == 3
MaxParts == 2

\* the streams of the example: five tokens, against sentences of two
\* ideographs and of one
ExampleIpa == <<"a", "b", "c", ".", "d">>
ExampleSegments == <<<<H, H>>, <<H>>>>

RECURSIVE TokenStreams(_)
TokenStreams(n) ==
    IF n = 0 THEN {<<>>}
    ELSE LET shorter == TokenStreams(n - 1)
         IN  shorter \cup {Append(t, x) : t \in {y \in shorter : Len(y) = n - 1},
                                          x \in {"a", "."}}

PartSources == {<<H>>, <<H, H>>, <<DOT>>, <<NL, H>>, <<H, DOT>>}

RECURSIVE PartLists(_)
PartLists(n) ==
    IF n = 0 THEN {<<>>}
    ELSE LET shorter == PartLists(n - 1)
         IN  shorter \cup {Append(l, src) : l \in {y \in shorter : Len(y) = n - 1},
                                            src \in PartSources}

\* the tupa stream of a transcript: one token per ipa token
Romanized(ipa) == [i \in 1..Len(ipa) |-> IF ipa[i] = "." THEN "." ELSE "u"]

InitSplit ==
    /\ IdleSeg /\ IdleBuild /\ IdleAlign /\ IdleMig /\ IdleTr /\ IdleCs /\ IdleCv
    /\ split_version \in {"current", "legacy"}
    /\ \/ /\ in_ipa \in TokenStreams(MaxTokens)
          /\ in_segments \in PartLists(MaxParts)
       \/ /\ in_ipa = ExampleIpa
          /\ in_segments = ExampleSegments
    /\ in_tupa \in {Romanized(in_ipa), <<>>}
    /\ out_results = <<>>
    /\ split_pc = "call"

SplitTheTranscript ==
    /\ split_pc = "call"
    /\ out_results' = SplitTranscriptData(split_version, in_ipa, in_tupa, in_segments)
    /\ split_pc' = "returned"
    /\ UNCHANGED <<split_version, in_ipa, in_tupa, in_segments>>
    /\ UNCHANGED <<segVars, buildVars, alignVars, migVars, trVars, csVars, cvVars>>

NextSplit == SplitTheTranscript

SpecSplit == InitSplit /\ [][NextSplit]_vars

----------------------------------------------------------------------------
\* the parts of one stream ("ipa" or "tupa") in the results returned
PartsOf(stream) ==
    [i \in 1..Len(out_results) |->
        IF stream = "ipa" THEN out_results[i].ipa ELSE out_results[i].tupa]

\* the boundaries at which a terminator may have been inserted: the part is
\* followed by a sentence that starts with a newline and ends with "."
Boundaries(parts) ==
    {i \in 1..(Len(parts) - 1) :
        /\ in_segments[i + 1] # <<>> /\ in_segments[i + 1][1] = NL
        /\ parts[i] # <<>> /\ parts[i][Len(parts[i])] = "."}

\* the parts hold the tokens, in order, each once, and nothing else but
\* terminators inserted at some of the boundaries
Conserved(tokens, parts) ==
    \E inserted \in SUBSET Boundaries(parts) :
        ConcatAll([i \in 1..Len(parts) |->
                    IF i \in inserted THEN SubSeq(parts[i], 1, Len(parts[i]) - 1)
                    ELSE parts[i]]) = tokens

\* C12: the parts split_transcript_data returns hold every token of the ipa
\* stream and of the tupa stream exactly once, in order, apart from inserted
\* boundary terminators: their total number is that of the input tokens
\* (for a list of at least one new sentence: without parts nothing can be
\* held).
RedistributionConservation ==
    (split_pc = "returned" /\ in_segments # <<>>) =>
        /\ Conserved(in_ipa, PartsOf("ipa"))
        /\ Conserved(in_tupa, PartsOf("tupa"))

\* ---- C13: the example of the redistribution ----

ExampleSplit == split_pc = "returned" /\ in_ipa = ExampleIpa /\ in_segments = ExampleSegments

\* C13 as stated: the tokens a b c . d against new sentences of two and one
\* ideographs give the parts [a b .] and [c d].
ExampleAsStated ==
    ExampleSplit => PartsOf("ipa") = <<<<"a", "b", ".">>, <<"c", "d">>>>

\* C13, amended: the tokens a b c . d against new sentences of two and one
\* ideographs give the parts [a b] and [c . d]: the terminator trails the
\* syllable it follows in the input, and the token left over goes to the
\* last part.
ExampleRedistribution ==
    ExampleSplit => PartsOf("ipa") = <<<<"a", "b">>, <<"c", ".", "d">>>>

ExampleRedistributionWitness ==
    ExampleSplit /\ in_tupa = Romanized(ExampleIpa) /\ Len(out_results) = 2

----------------------------------------------------------------------------
\* The transcription run (transcribe.py)
\*
\* WEI is U+7232 and WEI_S its simplified form U+4E3A, which replace_chars
\* rewrites.  A transcription is a sequence of symbols, "." among them; the
\* emitted tokens are transcriptions and the sentence marker <<".">>.

WEI == "WEI"
WEI_S == "WEI_S"

\* CHAR_REPLACEMENTS, for the characters of the model
ReplaceChars(t) ==
    LET kept == SelectSeq(t, LAMBDA c : c \notin {OCQ, CQ})
    IN  [i \in 1..Len(kept) |-> IF kept[i] = WEI_S THEN WEI ELSE kept[i]]

\* re.sub(r"`[^`]*`", "", text): a backtick with a later backtick opens a
\* span that ends at the next one
RECURSIVE RemoveCodeSpans(_)
RemoveCodeSpans(t) ==
    IF t = <<>> THEN <<>>
    ELSE IF Head(t) = BT /\ \E j \in 2..Len(t) : t[j] = BT
         THEN LET j == CHOOSE k \in 2..Len(t) :
                           t[k] = BT /\ \A m \in 2..(k - 1) : t[m] # BT
              IN  RemoveCodeSpans(SubSeq(t, j + 1, Len(t)))
         ELSE <<Head(t)>> \o RemoveCodeSpans(Tail(t))

\* re.sub(r"\.+$", ".", normalized)
RECURSIVE CollapseTrailingDots(_)
CollapseTrailingDots(t) ==
    IF Len(t) >= 2 /\ t[Len(t)] = "." /\ t[Len(t) - 1] = "."
    THEN CollapseTrailingDots(SubSeq(t, 1, Len(t) - 1))
    ELSE t

\* normalize_text
NormalizeForTranscription(t) ==
    LET unspaced == SelectSeq(RemoveCodeSpans(t), LAMBDA c : ~IsSpace(c))
        dotted == [i \in 1..Len(unspaced) |->
                      IF unspaced[i] = DOT THEN "." ELSE unspaced[i]]
    IN  CollapseTrailingDots(dotted)

\* the dictionary of the model: H has one reading, YUE and WEI have two,
\* every other character has none
Readings(ch) ==
    CASE ch = H -> << <<"ha">> >>
      [] ch = YUE -> << <<"hjwot">>, <<"jwet">> >>
      [] ch = WEI -> << <<"hjwe">>, <<"hjwe", ".", "h">> >>
      [] OTHER -> <<>>

\* special_cases.toml of the model: WEI takes its second reading
SpecialCases == (WEI :> 1)

\* transcription.replace(".", "").strip()
WithoutPeriods(transcription) == SelectSeq(transcription, LAMBDA c : c # ".")

\* what the operator may type after 'm'
ManualInputs == {<<"x">>, <<".">>}

\* convert_cinix_to_tupa: the sentence markers are left out and every word
\* is converted
ConvertCinixToTupa(ipa) ==
    LET words == SelectSeq(ipa, LAMBDA w : w # <<".">>)
    IN  [i \in 1..Len(words) |-> <<"tupa">> \o words[i]]

\* " ".join(p for p in ipa_parts if p)
JoinedIpa(parts) == SelectSeq(parts, LAMBDA w : w # <<>>)

\* an entry of a sentence transcript file is a JSON object: a function of
\* its keys
HasIpa(e) == "ipa" \in DOMAIN e /\ e.ipa # <<>>
HasSource(e) == "source" \in DOMAIN e /\ Strip(e.source) # <<>>

\* the character under the cursor (pos is the code's pos + 1)
CurrentChar == normalized_text[pos]
Scanning == tr_pc = "scan" /\ pos <= Len(normalized_text)
AtPrompt ==
    /\ Scanning /\ CurrentChar # "."
    /\ Len(Readings(CurrentChar)) > 1
    /\ CurrentChar \notin DOMAIN SpecialCases

\* --- the driver loop over the files and their sentences

OpenFile ==
    /\ tr_pc = "file" /\ file_idx < Len(sentence_files)
    /\ file_idx' = file_idx + 1
    /\ file_data' = sentence_files[file_idx + 1]
    /\ changed' = FALSE /\ sent_idx' = 1
    /\ tr_pc' = "sentence"
    /\ UNCHANGED <<sentence_files, start_files, normalized_text, pos, ipa_parts,
                   choice_history, before_choice, completed>>
    /\ UNCHANGED <<segVars, buildVars, alignVars, migVars, splitVars, csVars, cvVars>>

AllFilesDone ==
    /\ tr_pc = "file" /\ file_idx >= Len(sentence_files)
    /\ tr_pc' = "finished"
    /\ UNCHANGED <<sentence_files, start_files, file_idx, file_data, sent_idx,
                   changed, normalized_text, pos, ipa_parts, choice_history,
                   before_choice, completed>>
    /\ UNCHANGED <<segVars, buildVars, alignVars, migVars, splitVars, csVars, cvVars>>

\* continue: no source, or already transcribed and nothing new in this file
SkipSentence ==
    /\ tr_pc = "sentence" /\ sent_idx <= Len(file_data)
    /\ \/ ~HasSource(file_data[sent_idx])
       \/ HasIpa(file_data[sent_idx]) /\ ~changed
    /\ sent_idx' = sent_idx + 1
    /\ UNCHANGED <<sentence_files, start_files, file_idx, file_data, changed,
                   normalized_text, pos, ipa_parts, choice_history,
                   before_choice, completed, tr_pc>>
    /\ UNCHANGED <<segVars, buildVars, alignVars, migVars, splitVars, csVars, cvVars>>

\* a variant that passes over the transcribed sentence and goes on in the
\* file
PassingOverTranscribed ==
    /\ tr_pc = "sentence" /\ sent_idx <= Len(file_data)
    /\ HasSource(file_data[sent_idx])
    /\ HasIpa(file_data[sent_idx]) /\ changed
    /\ sent_idx' = sent_idx + 1
    /\ UNCHANGED <<sentence_files, start_files, file_idx, file_data, changed,
                   normalized_text, pos, ipa_parts, choice_history,
                   before_choice, completed, tr_pc>>
    /\ UNCHANGED <<segVars, buildVars, alignVars, migVars, splitVars, csVars, cvVars>>

\* break, and the write that follows the loop
StopAtTranscribed ==
    /\ tr_pc = "sentence" /\ sent_idx <= Len(file_data)
    /\ HasSource(file_data[sent_idx])
    /\ HasIpa(file_data[sent_idx]) /\ changed
    /\ sentence_files' = [sentence_files EXCEPT ![file_idx] = file_data]
    /\ tr_pc' = "file"
    /\ UNCHANGED <<start_files, file_idx, file_data, sent_idx, changed,
                   normalized_text, pos, ipa_parts, choice_history,
                   before_choice, completed>>
    /\ UNCHANGED <<segVars, buildVars, alignVars, migVars, splitVars, csVars, cvVars>>

\* the call of transcribe_to_ipa
StartSentence ==
    /\ tr_pc = "sentence" /\ sent_idx <= Len(file_data)
    /\ HasSource(file_data[sent_idx]) /\ ~HasIpa(file_data[sent_idx])
    /\ normalized_text' =
           NormalizeForTranscription(ReplaceChars(file_data[sent_idx].source))
    /\ pos' = 1 /\ ipa_parts' = <<>> /\ choice_history' = <<>>
    /\ before_choice' = <<>>
    /\ tr_pc' = "scan"
    /\ UNCHANGED <<sentence_files, start_files, file_idx, file_data, sent_idx,
                   changed, completed>>
    /\ UNCHANGED <<segVars, buildVars, alignVars, migVars, splitVars, csVars, cvVars>>

\* the end of the loop over the sentences, and the write if anything changed
EndOfFile ==
    /\ tr_pc = "sentence" /\ sent_idx > Len(file_data)
    /\ sentence_files' =
           IF changed THEN [sentence_files EXCEPT ![file_idx] = file_data]
           ELSE sentence_files
    /\ tr_pc' = "file"
    /\ UNCHANGED <<start_files, file_idx, file_data, sent_idx, changed,
                   normalized_text, pos, ipa_parts, choice_history,
                   before_choice, completed>>
    /\ UNCHANGED <<segVars, buildVars, alignVars, migVars, splitVars, csVars, cvVars>>

\* --- transcribe_to_ipa: one iteration of the loop over the characters

EmitPeriod ==
    /\ Scanning /\ CurrentChar = "."
    /\ ipa_parts' = Append(ipa_parts, <<".">>)
    /\ pos' = pos + 1
    /\ UNCHANGED <<sentence_files, start_files, file_idx, file_data, sent_idx,
                   changed, normalized_text, choice_history, before_choice,
                   completed, tr_pc>>
    /\ UNCHANGED <<segVars, buildVars, alignVars, migVars, splitVars, csVars, cvVars>>

EmitOnlyReading ==
    /\ Scanning /\ CurrentChar # "."
    /\ Len(Readings(CurrentChar)) = 1
    /\ LET transcription == WithoutPeriods(Readings(CurrentChar)[1])
       IN  ipa_parts' = IF transcription # <<>>
                        THEN Append(ipa_parts, transcription) ELSE ipa_parts
    /\ pos' = pos + 1
    /\ UNCHANGED <<sentence_files, start_files, file_idx, file_data, sent_idx,
                   changed, normalized_text, choice_history, before_choice,
                   completed, tr_pc>>
    /\ UNCHANGED <<segVars, buildVars, alignVars, migVars, splitVars, csVars, cvVars>>

EmitSpecialCase ==
    /\ Scanning /\ CurrentChar # "."
    /\ Len(Readings(CurrentChar)) > 1
    /\ CurrentChar \in DOMAIN SpecialCases
    /\ LET readings == Readings(CurrentChar)
           choice_idx == SpecialCases[CurrentChar]
           transcription ==
               WithoutPeriods(IF 0 <= choice_idx /\ choice_idx < Len(readings)
                              THEN readings[choice_idx + 1] ELSE readings[1])
       IN  ipa_parts' = IF transcription # <<>>
                        THEN Append(ipa_parts, transcription) ELSE ipa_parts
    /\ pos' = pos + 1
    /\ UNCHANGED <<sentence_files, start_files, file_idx, file_data, sent_idx,
                   changed, normalized_text, choice_history, before_choice,
                   completed, tr_pc>>
    /\ UNCHANGED <<segVars, buildVars, alignVars, migVars, splitVars, csVars, cvVars>>

\* a character the dictionary does not hold is emitted as it is
EmitUnknown ==
    /\ Scanning /\ CurrentChar # "."
    /\ Len(Readings(CurrentChar)) = 0
    /\ ipa_parts' = Append(ipa_parts, <<CurrentChar>>)
    /\ pos' = pos + 1
    /\ UNCHANGED <<sentence_files, start_files, file_idx, file_data, sent_idx,
                   changed, normalized_text, choice_history, before_choice,
                   completed, tr_pc>>
    /\ UNCHANGED <<segVars, buildVars, alignVars, migVars, splitVars, csVars, cvVars>>

\* --- the operator's commands at the prompt

\* what follows the prompt once a transcription is chosen: the token is
\* emitted and a checkpoint pushed, unless nothing is left of the
\* transcription without its periods
AfterChoice(transcription) ==
    /\ before_choice' = <<[pos |-> pos, ipa_parts |-> ipa_parts,
                           choice_history |-> choice_history]>>
    /\ IF WithoutPeriods(transcription) # <<>>
       THEN /\ ipa_parts' = Append(ipa_parts, WithoutPeriods(transcription))
            /\ choice_history' =
                   Append(choice_history,
                          [pos |-> pos, ch |-> CurrentChar,
                           ipa_count |-> Len(ipa_parts)])
       ELSE UNCHANGED <<ipa_parts, choice_history>>
    /\ pos' = pos + 1
    /\ UNCHANGED <<sentence_files, start_files, file_idx, file_data, sent_idx,
                   changed, normalized_text, completed, tr_pc>>
    /\ UNCHANGED <<segVars, buildVars, alignVars, migVars, splitVars, csVars, cvVars>>

ChooseIndex ==
    /\ AtPrompt
    /\ \E choice_idx \in 0..(Len(Readings(CurrentChar)) - 1) :
           AfterChoice(Readings(CurrentChar)[choice_idx + 1])

ManualInput ==
    /\ AtPrompt
    /\ \E manual_transcription \in ManualInputs :
           AfterChoice(manual_transcription)

\* what 'b' rewinds to: the last checkpoint is popped, the tokens emitted
\* after it are removed and the cursor is set back to its position
Rewound ==
    LET last == choice_history[Len(choice_history)]
    IN  [pos |-> last.pos,
         ipa_parts |-> IF Len(ipa_parts) > last.ipa_count
                       THEN SubSeq(ipa_parts, 1, last.ipa_count)
                       ELSE ipa_parts,
         choice_history |-> SubSeq(choice_history, 1, Len(choice_history) - 1)]

\* 'b' with a checkpoint on the stack
GoBack ==
    /\ AtPrompt /\ choice_history # <<>>
    /\ choice_history' = Rewound.choice_history
    /\ ipa_parts' = Rewound.ipa_parts
    /\ pos' = Rewound.pos
    /\ before_choice' = <<>>
    /\ UNCHANGED <<sentence_files, start_files, file_idx, file_data, sent_idx,
                   changed, normalized_text, completed, tr_pc>>
    /\ UNCHANGED <<segVars, buildVars, alignVars, migVars, splitVars, csVars, cvVars>>

\* 'b' without one: "No previous selection to go back to."
GoBackNothing ==
    /\ AtPrompt /\ choice_history = <<>>
    /\ UNCHANGED vars

\* a variant of 'q' that exits without the write
QuitWithoutSaving ==
    /\ AtPrompt
    /\ tr_pc' = "quit"
    /\ UNCHANGED <<sentence_files, start_files, file_idx, file_data, sent_idx,
                   changed, normalized_text, pos, ipa_parts, choice_history,
                   before_choice, completed>>
    /\ UNCHANGED <<segVars, buildVars, alignVars, migVars, splitVars, csVars, cvVars>>

\* 'q': the interrupt reaches the driver, which writes the file if anything
\* changed in it and exits
SaveAndQuit ==
    /\ AtPrompt
    /\ sentence_files' =
           IF changed THEN [sentence_files EXCEPT ![file_idx] = file_data]
           ELSE sentence_files
    /\ tr_pc' = "quit"
    /\ UNCHANGED <<start_files, file_idx, file_data, sent_idx, changed,
                   normalized_text, pos, ipa_parts, choice_history,
                   before_choice, completed>>
    /\ UNCHANGED <<segVars, buildVars, alignVars, migVars, splitVars, csVars, cvVars>>

\* the return of transcribe_to_ipa and the assignments of the driver
ReturnIpa ==
    /\ tr_pc = "scan" /\ pos > Len(normalized_text)
    /\ LET ipa_text == JoinedIpa(ipa_parts)
       IN  file_data' = [file_data EXCEPT ![sent_idx] =
               [source |-> file_data[sent_idx].source, ipa |-> ipa_text,
                tupa |-> ConvertCinixToTupa(ipa_text)]]
    /\ changed' = TRUE
    /\ completed' = completed \cup {<<file_idx, sent_idx>>}
    /\ sent_idx' = sent_idx + 1
    /\ tr_pc' = "sentence"
    /\ UNCHANGED <<sentence_files, start_files, file_idx, normalized_text, pos,
                   ipa_parts, choice_history, before_choice>>
    /\ UNCHANGED <<segVars, buildVars, alignVars, migVars, splitVars, csVars, cvVars>>

MaxRunSentences == 3
MaxSourceLen == 3

RunSources == {<<YUE, DOT>>, <<WEI_S, H>>, <<SP>>}
TranscribedEntry == [source |-> <<H>>, ipa |-> << <<"ha">> >>, tupa |-> << <<"tupa", "ha">> >>]
RunEntries == {[source |-> s] : s \in RunSources} \cup {TranscribedEntry}

RECURSIVE EntryLists(_)
EntryLists(n) ==
    IF n = 0 THEN {<<>>}
    ELSE LET shorter == EntryLists(n - 1)
         IN  shorter \cup {Append(l, e) : l \in shorter, e \in RunEntries}

TranscriptionAlphabet == {H, YUE, DOT, WEI, QO}

RECURSIVE SourcesUpTo(_)
SourcesUpTo(n) ==
    IF n = 0 THEN {<<>>}
    ELSE LET shorter == SourcesUpTo(n - 1)
         IN  shorter \cup {Append(t, c) : t \in shorter, c \in TranscriptionAlphabet}

\* the files before the run: two chapters that share up to MaxRunSentences
\* sentences, or one sentence of up to MaxSourceLen characters
FileSystems ==
    UNION {{<<SubSeq(l, 1, k), SubSeq(l, k + 1, Len(l))>> : k \in 0..Len(l)} :
              l \in EntryLists(MaxRunSentences)}
    \cup {<< <<[source |-> t]>>, <<>> >> : t \in SourcesUpTo(MaxSourceLen) \ {<<>>}}

InitTranscribe ==
    /\ IdleSeg /\ IdleBuild /\ IdleAlign /\ IdleMig /\ IdleSplit /\ IdleCs /\ IdleCv
    /\ sentence_files \in FileSystems
    /\ start_files = sentence_files
    /\ file_idx = 0 /\ file_data = <<>> /\ sent_idx = 0 /\ changed = FALSE
    /\ normalized_text = <<>> /\ pos = 0 /\ ipa_parts = <<>>
    /\ choice_history = <<>> /\ before_choice = <<>> /\ completed = {}
    /\ tr_pc = "file"

NextTranscribe ==
    \/ OpenFile \/ AllFilesDone \/ SkipSentence \/ StopAtTranscribed
    \/ StartSentence \/ EndOfFile
    \/ EmitPeriod \/ EmitOnlyReading \/ EmitSpecialCase \/ EmitUnknown
    \/ ChooseIndex \/ ManualInput \/ GoBack \/ GoBackNothing \/ SaveAndQuit
    \/ ReturnIpa

SpecTranscribe == InitTranscribe /\ [][NextTranscribe]_vars

----------------------------------------------------------------------------
\* ---- C14: go back restores the prior state ----

\* the cursor, the emitted tokens and the undo stack as 'b' leaves them
AfterB ==
    IF choice_history # <<>> THEN Rewound
    ELSE [pos |-> pos, ipa_parts |-> ipa_parts, choice_history |-> choice_history]

\* C14: at the first prompt after a choice of the operator (an index or a
\* manual transcription), 'b' leaves the cursor, the emitted tokens and the
\* undo stack exactly as they were just before that choice.
GoBackRestores ==
    (AtPrompt /\ before_choice # <<>>) => AfterB = before_choice[1]

----------------------------------------------------------------------------
\* ---- C15: save-and-exit is durable at sentence granularity ----

SentencePositions ==
    {fk \in (1..Len(sentence_files)) \X (1..MaxRunSentences) :
        fk[2] <= Len(sentence_files[fk[1]])}

OnDisk(fk) == sentence_files[fk[1]][fk[2]]
AtStart(fk) == start_files[fk[1]][fk[2]]

\* C15: once the run has ended by save-and-exit, the files hold ipa and tupa
\* for every sentence completed in this run; every other sentence, the one
\* in progress and the later ones among them, is as it was before the run;
\* an entry the run has filled has its tupa whenever it has its ipa; and
\* the files of the later chapters are as they were.
SaveAndExitDurable ==
    tr_pc = "quit" =>
        /\ \A fk \in completed :
              /\ {"ipa", "tupa"} \subseteq DOMAIN OnDisk(fk)
              /\ OnDisk(fk).tupa = ConvertCinixToTupa(OnDisk(fk).ipa)
              /\ OnDisk(fk).source = AtStart(fk).source
        /\ \A fk \in SentencePositions \ completed : OnDisk(fk) = AtStart(fk)
        /\ \A fk \in SentencePositions :
              (OnDisk(fk) # AtStart(fk) /\ "ipa" \in DOMAIN OnDisk(fk))
                  => "tupa" \in DOMAIN OnDisk(fk)
        /\ \A f \in (file_idx + 1)..Len(sentence_files) :
              sentence_files[f] = start_files[f]

\* save-and-exit in the second sentence of a chapter whose first sentence
\* this run has completed, with a later chapter that holds a sentence
SaveAndExitDurableWitness ==
    /\ tr_pc = "quit"
    /\ <<1, 1>> \in completed /\ file_idx = 1 /\ sent_idx = 2
    /\ Len(sentence_files) = 2 /\ sentence_files[2] # <<>>
    /\ "ipa" \in DOMAIN sentence_files[1][1]

----------------------------------------------------------------------------
\* ---- C16: the sentence ids are contiguous ----

\* C16: the k-th sentence emitted for a chapter has the number k as its id
\* and as its index, the sentences are in the order of their blocks, and the
\* counter is one past the last number given, whichever blocks were skipped.
ContiguousIds ==
    /\ \A k \in 1..Len(sentence_records) :
          /\ sentence_records[k].id = k
          /\ sentence_records[k].index = k
    /\ \A j, k \in 1..Len(sentence_records) :
          j < k => sentence_records[j].blockId <= sentence_records[k].blockId
    /\ sentence_counter = Len(sentence_records) + 1

\* a chapter with a skipped block between two blocks that emit sentences
ContiguousIdsWitness ==
    /\ build_pc = "done"
    /\ Len(blocks) = 3
    /\ BlockSentenceSources(blocks[2]) = <<>>
    /\ Len(sentence_records) = 2
    /\ sentence_records[1].blockId = 1 /\ sentence_records[2].blockId = 3

----------------------------------------------------------------------------
\* create_segments applied to one list of sentences

MaxSentenceCount == 4
MaxCharLimit == 4

\* sentences of one to three visible characters, one with a space
SegmentSentences == {<<H>>, <<H, DOT>>, <<SP, H>>, <<H, H, DOT>>}

RECURSIVE SegmentSentenceLists(_)
SegmentSentenceLists(n) ==
    IF n = 0 THEN {<<>>}
    ELSE LET shorter == SegmentSentenceLists(n - 1)
         IN  shorter \cup {Append(l, x) : l \in shorter, x \in SegmentSentences}

InitCreate ==
    /\ IdleSeg /\ IdleBuild /\ IdleAlign /\ IdleMig /\ IdleSplit /\ IdleTr /\ IdleCv
    /\ in_sentences \in SegmentSentenceLists(MaxSentenceCount)
    /\ minChars \in 0..MaxCharLimit
    /\ maxChars \in 0..MaxCharLimit
    /\ out_segments = <<>>
    /\ cs_pc = "call"

CreateTheSegments ==
    /\ cs_pc = "call"
    /\ out_segments' = CreateSegments(in_sentences, minChars, maxChars)
    /\ cs_pc' = "returned"
    /\ UNCHANGED <<in_sentences, minChars, maxChars>>
    /\ UNCHANGED <<segVars, buildVars, alignVars, migVars, splitVars, trVars, cvVars>>

NextCreate == CreateTheSegments

SpecCreate == InitCreate /\ [][NextCreate]_vars

----------------------------------------------------------------------------
\* ---- C17: the size bound of the segments ----

\* the sentences of every segment: the segments are the sentences joined in
\* order, so each is made of the next sentences up to its length
RECURSIVE SentencesOfSegments(_, _)
SentencesOfSegments(ss, segs) ==
    IF segs = <<>> THEN <<>>
    ELSE LET n == CHOOSE m \in 1..Len(ss) :
                      Concat(SubSeq(ss, 1, m)) = Head(segs)
         IN  <<SubSeq(ss, 1, n)>> \o
             SentencesOfSegments(SubSeq(ss, n + 1, Len(ss)), Tail(segs))

SegmentGroups == SentencesOfSegments(in_sentences, out_segments)

\* C17: with minChars <= maxChars, a segment whose visible length is above
\* maxChars is a single sentence or is below minChars without its last
\* sentence; hence a segment that has reached minChars is never extended by
\* a sentence that takes it above maxChars.
SegmentSizeBound ==
    (cs_pc = "returned" /\ minChars <= maxChars) =>
        \A g \in 1..Len(out_segments) :
            LET group == SegmentGroups[g]
                before == Concat(SubSeq(group, 1, Len(group) - 1))
            IN  /\ Concat(group) = out_segments[g]
                /\ VisibleLength(out_segments[g]) > maxChars =>
                      \/ Len(group) = 1
                      \/ VisibleLength(before) < minChars
                /\ Len(group) > 1 =>
                      ~(/\ VisibleLength(before) >= minChars
                        /\ VisibleLength(out_segments[g]) > maxChars)

\* a segment above maxChars made of two sentences, the first below minChars,
\* after a segment closed at minChars before a sentence that would not fit
SegmentSizeBoundWitness ==
    /\ cs_pc = "returned" /\ minChars <= maxChars
    /\ Len(out_segments) >= 2
    /\ \E g \in 1..Len(out_segments) :
          /\ Len(SegmentGroups[g]) = 2
          /\ VisibleLength(out_segments[g]) > maxChars
    /\ \E g \in 1..(Len(out_segments) - 1) :
          /\ VisibleLength(out_segments[g]) >= minChars
          /\ VisibleLength(out_segments[g]) <= maxChars
          /\ VisibleLength(out_segments[g]) + VisibleLength(SegmentGroups[g + 1][1]) > maxChars

----------------------------------------------------------------------------
\* The sentence splitters applied to one block text: split_chinese_sentences
\* (as in SpecSeg) and the two split_sentences

MaxBlockTextLen == 5

BlockTextAlphabet == {BT, DOT, H, SP, QO, QC}

InitSentences ==
    /\ IdleBuild /\ IdleAlign /\ IdleMig /\ IdleSplit /\ IdleTr /\ IdleCs /\ IdleCv
    /\ text \in TextsUpTo(BlockTextAlphabet, MaxBlockTextLen)
    /\ \/ /\ splitter \in {"build", "segment_text"}
          /\ preserve_spaces \in (IF splitter = "build" THEN BOOLEAN ELSE {FALSE})
          /\ pc = "input"
       \/ /\ splitter \in {"build_split_sentences", "segment_split_sentences"}
          /\ preserve_spaces = FALSE
          /\ pc = "block text"
    /\ sentences = <<>>

SplitSentences ==
    /\ pc = "block text"
    /\ sentences' = IF splitter = "build_split_sentences"
                    THEN BuildSplitSentences(text)
                    ELSE SegSplitSentences(text)
    /\ pc' = "done"
    /\ UNCHANGED <<text, splitter, preserve_spaces>>
    /\ UNCHANGED <<buildVars, alignVars, migVars, splitVars, trVars, csVars, cvVars>>

NextSentences == SplitChineseSentences \/ SplitSentences

SpecSentences == InitSentences /\ [][NextSentences]_vars

----------------------------------------------------------------------------
\* ---- C18: backtick spans are atomic ----

\* the spans of t from position i on: a backtick and the next backtick
\* after it delimit a span
RECURSIVE PairedSpans(_, _)
PairedSpans(t, i) ==
    IF i > Len(t) THEN {}
    ELSE IF t[i] # BT THEN PairedSpans(t, i + 1)
    ELSE LET j == IndexOf(t, BT, i + 1)
         IN  IF j = 0 THEN {} ELSE {<<i, j>>} \cup PairedSpans(t, j + 1)

\* the positions of t at which the sentences ss end, when t is the sentences
\* in order with whitespace between them
RECURSIVE CutPositions(_, _, _)
CutPositions(t, ss, offset) ==
    IF ss = <<>> THEN {}
    ELSE LET lead == Len(t) - Len(LStrip(t))
             end == lead + Len(Head(ss))
         IN  {offset + end} \cup CutPositions(From(t, end + 1), Tail(ss), offset + end)

SentenceEnds == CutPositions(text, sentences, 0)

InSomeSpan(i) == \E sp \in PairedSpans(text, 1) : sp[1] <= i /\ i <= sp[2]

\* C18: for a text with backticks, split_sentences of build-sentences ends
\* no sentence inside a backtick-delimited span; a full stop inside a span
\* ends the sentence at the closing backtick of the span; and a full stop
\* outside the spans ends the sentence right after it.
BacktickSpansAtomic ==
    (pc = "done" /\ splitter = "build_split_sentences" /\ IndexOf(text, BT, 1) # 0) =>
        /\ Reassembles(text, sentences)
        /\ \A sp \in PairedSpans(text, 1) :
              /\ \A i \in sp[1]..(sp[2] - 1) : i \notin SentenceEnds
              /\ IndexOf(SubSeq(text, sp[1], sp[2]), DOT, 1) # 0 => sp[2] \in SentenceEnds
        /\ \A i \in 1..Len(text) :
              (text[i] = DOT /\ ~InSomeSpan(i)) => i \in SentenceEnds

----------------------------------------------------------------------------
\* ---- C19: the newline-run rule of segment-text.py ----

\* inside_quotes when the scan reaches position i: the last quote character
\* before i is an opening one
InsideQuotesAt(t, i) ==
    \E q \in 1..(i - 1) :
        /\ t[q] = QO
        /\ \A r \in (q + 1)..(i - 1) : t[r] \notin {QO, QC}

\* the maximal runs of newlines that the scan meets outside quotes
NewlineRuns(t) ==
    {run \in (1..Len(t)) \X (1..Len(t)) :
        /\ run[1] <= run[2]
        /\ \A i \in run[1]..run[2] : t[i] = NL
        /\ ~InsideQuotesAt(t, run[1])
        /\ (run[1] > 1 => t[run[1] - 1] # NL)
        /\ (run[2] < Len(t) => t[run[2] + 1] # NL)}

\* the last position before i that holds no whitespace, or 0
LastVisibleBefore(t, i) ==
    IF \E p \in 1..(i - 1) : ~IsSpace(t[p])
    THEN CHOOSE p \in 1..(i - 1) :
             ~IsSpace(t[p]) /\ \A r \in (p + 1)..(i - 1) : IsSpace(t[r])
    ELSE 0

\* the positions at which a sentence ends and another one follows
InnerBoundaries ==
    IF sentences = <<>> THEN {}
    ELSE CutPositions(text, SubSeq(sentences, 1, Len(sentences) - 1), 0)

\* C19: in the segmenter of segment-text.py, a run of newlines outside the
\* quotes, with text before and after it, makes one sentence boundary: the
\* sentences before it are the text before it, and the sentence after it
\* starts with the run; no sentence is made of newlines only; and a newline
\* inside the quotes ends no sentence.
NewlineRunRule ==
    (pc = "done" /\ splitter = "segment_text") =>
        /\ \A run \in NewlineRuns(text) :
              (/\ RemoveWhitespace(SubSeq(text, 1, run[1] - 1)) # <<>>
               /\ RemoveWhitespace(From(text, run[2] + 1)) # <<>>)
              => \E k \in 2..Len(sentences) :
                    /\ RemoveWhitespace(Concat(SubSeq(sentences, 1, k - 1)))
                           = RemoveWhitespace(SubSeq(text, 1, run[1] - 1))
                    /\ StartsWith(sentences[k], SubSeq(text, run[1], run[2]))
        /\ \A k \in 1..Len(sentences) : \E i \in 1..Len(sentences[k]) : sentences[k][i] # NL
        /\ \A i \in 1..Len(text) :
              (text[i] = NL /\ InsideQuotesAt(text, i)
                   /\ LastVisibleBefore(text, i) \in InnerBoundaries)
              => text[LastVisibleBefore(text, i)] = CQ

----------------------------------------------------------------------------
\* ---- C20: the end-of-input flush ----

\* the text after the last terminator
TailAfterLastTerminator(t) ==
    IF \E i \in 1..Len(t) : t[i] \in Terminators
    THEN LET last == CHOOSE i \in 1..Len(t) :
                         /\ t[i] \in Terminators
                         /\ \A j \in (i + 1)..Len(t) : t[j] \notin Terminators
         IN  From(t, last + 1)
    ELSE t

HasSuffix(s, p) == Len(p) <= Len(s) /\ From(s, Len(s) - Len(p) + 1) = p

\* C20: whichever splitter is applied, text other than whitespace that
\* follows the last terminator of the input is not dropped: the sentences
\* returned end with it.
EndOfInputFlush ==
    (pc = "done" /\ RemoveWhitespace(TailAfterLastTerminator(text)) # <<>>) =>
        /\ sentences # <<>>
        /\ HasSuffix(RemoveWhitespace(Concat(sentences)),
                     RemoveWhitespace(TailAfterLastTerminator(text)))

----------------------------------------------------------------------------
\* ---- C21: empty units are dropped and the survivors renumbered ----

SkipReported(w, seg) ==
    w # <<>> /\ w[Len(w)] = [title |-> "Skipping segment with no sentence IDs", segment |-> seg]

\* C21: in map_segments_to_sentence_ids every record has at least one
\* sentence id; a segment that received none is reported and makes no
\* record; the records are kept in the order of their segments; and the
\* records returned are numbered 1..N without a gap, in id and in index,
\* in that same order.
DroppedAndRenumbered ==
    /\ [](aligner = "segment_text" =>
            \A k \in 1..Len(results) : results[k].sentence_ids # <<>>)
    /\ []((aligner = "segment_text" /\ align_pc # "done") =>
            \A j, k \in 1..Len(results) :
                j < k => results[j].segment_index < results[k].segment_index)
    /\ [][(aligner = "segment_text" /\ UnitsDone /\ sentence_ids_for_segment = <<>>) =>
            (results' = results /\ SkipReported(warnings', seg_pos))]_vars
    /\ [][(aligner = "segment_text" /\ align_pc # "done" /\ align_pc' = "done") =>
            /\ Len(results') = Len(results)
            /\ \A k \in 1..Len(results) :
                  /\ results'[k].sentence_ids = results[k].sentence_ids
                  /\ results'[k].is_code_block = results[k].is_code_block]_vars
    /\ []((aligner = "segment_text" /\ align_pc = "done") =>
            \A k \in 1..Len(results) :
                results[k].segment_index = k /\ results[k].id = k)

\* a finished run whose first segment was skipped and whose second segment
\* made the record returned with number 1
DroppedAndRenumberedWitness ==
    /\ aligner = "segment_text" /\ align_pc = "done"
    /\ results # <<>>
    /\ \E k \in 1..Len(warnings) :
          warnings[k] = [title |-> "Skipping segment with no sentence IDs", segment |-> 1]

----------------------------------------------------------------------------
\* migrate_chapter on chapters whose translations file holds every old
\* sentence

InitMigTranslated ==
    /\ InitMig
    /\ old_translations_map = OldTrans(old_sentences)

SpecMigTranslated == InitMigTranslated /\ [][NextMig]_vars

----------------------------------------------------------------------------
\* ---- C22: the recorded correspondences are exact ----

\* the pairs (old id, new id) that the maps of the alignment relate
Related ==
    IF version = "current"
    THEN {on \in (1..MaxMigLen) \X DOMAIN new_to_old_ids_map :
             \E i \in 1..Len(new_to_old_ids_map[on[2]]) :
                 new_to_old_ids_map[on[2]][i] = on[1]}
    ELSE {on \in (DOMAIN id_map) \X (1..MaxMigLen) :
             \E i \in 1..Len(id_map[on[1]]) : id_map[on[1]][i] = on[2]}

OldsOf(n) == {o \in 1..MaxMigLen : <<o, n>> \in Related}
NewsOf(o) == {n \in 1..MaxMigLen : <<o, n>> \in Related}

IsRun(S) == \A a, b \in S : \A c \in a..b : c \in S

\* the whitespace-stripped concatenation of the sentences of list with the
\* ids of S (an id is the position of its sentence)
JoinedText(list, S) ==
    NormalizeText(ConcatAll([k \in 1..Len(list) |->
        IF list[k].id \in S THEN list[k].source ELSE <<>>]))

\* C22: every correspondence recorded relates a run of consecutive old
\* sentences to a run of consecutive new sentences with equal
\* whitespace-stripped concatenations, one of the runs being a single
\* sentence; no sentence is in two correspondences; a step that finds no
\* match records nothing; and the cursors never move back.
ExactCorrespondences ==
    /\ [](\A on \in Related :
            LET olds == OldsOf(on[2])
                news == NewsOf(on[1])
            IN  /\ IsRun(olds) /\ IsRun(news)
                /\ Cardinality(olds) = 1 \/ Cardinality(news) = 1
                /\ \A o \in olds : NewsOf(o) = news
                /\ \A n \in news : OldsOf(n) = olds
                /\ JoinedText(old_sentences, olds) = JoinedText(new_sentences, news))
    /\ [][(mig_pc = "loop" /\ NextIteration.kind \in {"fallback", "mismatch", "exhausted", "end"})
            => Related' = Related]_vars
    /\ [][old_idx' >= old_idx /\ new_idx' >= new_idx]_vars

\* a finished run that has recorded a split and a merge
ExactCorrespondencesWitness ==
    /\ mig_pc = "done"
    /\ \E on \in Related : Cardinality(NewsOf(on[1])) = 2
    /\ \E on \in Related : Cardinality(OldsOf(on[2])) = 2

\* ---- C23: the terminator inserted at a boundary ----

\* the split points followed by a new sentence that begins with a newline
NewlineSplitPoints ==
    {i \in 1..(Len(in_segments) - 1) :
        in_segments[i + 1] # <<>> /\ in_segments[i + 1][1] = NL}

EndsWithTerminator(part) == part # <<>> /\ part[Len(part)] \in {".", "!", "?"}

\* C23: after split_transcript_data, at every split point that a sentence
\* beginning with a newline follows, the ipa part and the tupa part end with
\* a sentence terminator.
BoundaryTerminatorInserted ==
    split_pc = "returned" =>
        \A i \in NewlineSplitPoints :
            /\ EndsWithTerminator(PartsOf("ipa")[i])
            /\ EndsWithTerminator(PartsOf("tupa")[i])

----------------------------------------------------------------------------
\* ---- C24: the sentences already transcribed are skipped ----

\* the run is at a sentence that has a source and an ipa, after it has
\* transcribed a sentence of the file
AtTranscribedAfterChange ==
    /\ tr_pc = "sentence" /\ sent_idx <= Len(file_data)
    /\ HasSource(file_data[sent_idx]) /\ HasIpa(file_data[sent_idx])
    /\ changed

\* C24: a sentence that has an ipa when the run starts keeps its ipa and its
\* tupa, in the file and in the data of the run, whatever the operator
\* types; once the run has transcribed a sentence of a file, reaching a
\* transcribed sentence ends the work on that file; and the sentences a run
\* has filled in a file are consecutive among those with a source.
SkipCompletedSentences ==
    /\ [](\A fk \in SentencePositions :
            HasIpa(AtStart(fk)) =>
                /\ OnDisk(fk).ipa = AtStart(fk).ipa
                /\ OnDisk(fk).tupa = AtStart(fk).tupa
                /\ (file_idx = fk[1] =>
                       /\ file_data[fk[2]].ipa = AtStart(fk).ipa
                       /\ file_data[fk[2]].tupa = AtStart(fk).tupa))
    /\ [][AtTranscribedAfterChange =>
            /\ tr_pc' = "file" /\ file_data' = file_data
            /\ completed' = completed
            /\ sentence_files' = [sentence_files EXCEPT ![file_idx] = file_data]]_vars
    /\ [](\A fk \in completed : \A k \in 1..MaxRunSentences :
            (k > fk[2] /\ <<fk[1], k>> \in completed) =>
                \A j \in (fk[2] + 1)..(k - 1) :
                    HasSource(AtStart(<<fk[1], j>>)) => <<fk[1], j>> \in completed)

\* a finished run that has filled the first sentence of a chapter, stopped at
\* the second, transcribed before the run, and left the third without ipa
SkipCompletedSentencesWitness ==
    /\ tr_pc = "finished"
    /\ Len(sentence_files[1]) = 3
    /\ <<1, 1>> \in completed
    /\ HasIpa(AtStart(<<1, 2>>))
    /\ HasSource(OnDisk(<<1, 3>>)) /\ ~HasIpa(OnDisk(<<1, 3>>))

----------------------------------------------------------------------------
\* ---- C25: the disambiguation cache ----

\* a character the operator is asked about
Ambiguous(ch) == Len(Readings(ch)) > 1 /\ ch \notin DOMAIN SpecialCases

\* the characters the operator has resolved so far in this run: those of the
\* sentences the run has completed, and those before the cursor in the
\* sentence in progress
ResolvedChars ==
    LET done == {NormalizeForTranscription(ReplaceChars(AtStart(fk).source)) :
                    fk \in completed}
        before == IF tr_pc = "scan" THEN SubSeq(normalized_text, 1, pos - 1) ELSE <<>>
    IN  {ch \in UNION {{t[i] : i \in 1..Len(t)} : t \in done \cup {before}} :
            Ambiguous(ch)}

\* C25: the operator is never asked about a character already resolved
\* earlier in the run, in this sentence, in an earlier sentence or in an
\* earlier chapter.
ResolvedOncePerRun == AtPrompt => CurrentChar \notin ResolvedChars

----------------------------------------------------------------------------
\* ---- C26: the source of an annotation is that of its sentence ----

\* old transcripts whose sources were written with other whitespace than the
\* regenerated sentences have
RespacedSources == MigSources \cup {<<NL, H>>}

RECURSIVE RespacedLists(_)
RespacedLists(n) ==
    IF n = 0 THEN {<<>>}
    ELSE LET shorter == RespacedLists(n - 1)
         IN  shorter \cup
             {Append(l, [id |-> n, source |-> src]) :
                 l \in {x \in shorter : Len(x) = n - 1}, src \in RespacedSources}

InitMigRespaced ==
    /\ IdleSeg /\ IdleBuild /\ IdleAlign /\ IdleSplit /\ IdleTr /\ IdleCs /\ IdleCv
    /\ version \in {"current", "legacy"}
    /\ old_sentences \in RespacedLists(MaxMigLen)
    /\ new_sentences \in SentenceLists(MaxMigLen)
    /\ old_translations_map = OldTrans(old_sentences)
    /\ old_idx = 0
    /\ new_idx = 0
    /\ new_to_data_map = <<>>
    /\ new_to_old_ids_map = <<>>
    /\ id_map = <<>>
    /\ mig_log = {}
    /\ new_transcript = <<>>
    /\ new_trans = <<>>
    /\ mig_pc = "loop"

SpecMigRespaced == InitMigRespaced /\ [][NextMig]_vars

\* C26: once migrate_chapter has rewritten the transcripts and the
\* translations, the entry under every key of both files has the source of
\* the regenerated sentence of that id, verbatim.
AnnotationSourceMirrorsSentence ==
    mig_pc = "done" =>
        /\ \A k \in DOMAIN new_transcript :
              new_transcript[k].source = new_sentences[k].source
        /\ \A k \in DOMAIN new_trans :
              new_trans[k].source = new_sentences[k].source

----------------------------------------------------------------------------
\* convert-segment-transcripts-to-sentences.py

\* split_chinese_sentences of the converter
ConvertSplitChineseSentences(t) ==
    ScanSentences(t, 1, <<>>, FALSE, <<>>, FALSE, FALSE)

\* split_ipa_sentences: everything up to and including each "." is one
\* sentence, and what follows the last "." is one more
RECURSIVE SplitIpaSentences(_, _, _)
SplitIpaSentences(ipa, current, out) ==
    IF ipa = <<>> THEN (IF current # <<>> THEN Append(out, current) ELSE out)
    ELSE IF Head(ipa) = <<".">>
    THEN SplitIpaSentences(Tail(ipa), <<>>, Append(out, Append(current, Head(ipa))))
    ELSE SplitIpaSentences(Tail(ipa), Append(current, Head(ipa)), out)

\* the number of written sentence endings of a Chinese sentence
EndingsOf(sentence) ==
    LET count == Len(SelectSeq(sentence, LAMBDA c : c = DOT))
    IN  IF count = 0 /\ Strip(sentence) # <<>> THEN 1 ELSE count

RECURSIVE TotalEndings(_)
TotalEndings(cn) == IF cn = <<>> THEN 0 ELSE EndingsOf(Head(cn)) + TotalEndings(Tail(cn))

\* the merging loop of rebalance_ipa_sentences_for_segment
RECURSIVE MergeIpaSentences(_, _, _)
MergeIpaSentences(cn, ipa_sents, ipa_index) ==
    IF cn = <<>> THEN <<>>
    ELSE LET count == EndingsOf(Head(cn))
         IN  <<Concat(SubSeq(ipa_sents, ipa_index + 1, ipa_index + count))>>
                 \o MergeIpaSentences(Tail(cn), ipa_sents, ipa_index + count)

\* rebalance_ipa_sentences_for_segment
RebalanceIpaSentences(cn, ipa_sents) ==
    IF cn = <<>> \/ ipa_sents = <<>> THEN ipa_sents
    ELSE IF TotalEndings(cn) # Len(ipa_sents) THEN ipa_sents
    ELSE MergeIpaSentences(cn, ipa_sents, 0)

\* the Chinese sentences of a segment file
SegmentCnSentences(segment_file) ==
    LET seg_text == Strip(segment_file)
        split == ConvertSplitChineseSentences(seg_text)
    IN  IF split # <<>> THEN split
        ELSE IF seg_text # <<>> THEN <<seg_text>> ELSE <<>>

\* the ipa sentences of a segment: those of its transcript file, rebalanced
\* or duplicated when their number is not that of the Chinese sentences
SegmentIpaSentences(cn, transcript) ==
    IF ~transcript.exists THEN <<>>
    ELSE LET ipa_sents == SplitIpaSentences(transcript.ipa, <<>>, <<>>)
             rebalanced == RebalanceIpaSentences(cn, ipa_sents)
         IN  IF Len(ipa_sents) = Len(cn) THEN ipa_sents
             ELSE IF Len(rebalanced) = Len(cn) THEN rebalanced
             ELSE IF Len(ipa_sents) = 1 THEN [i \in 1..Len(cn) |-> ipa_sents[1]]
             ELSE ipa_sents

\* the segment sentence holds the canonical sentence at index i and the next
SpansTwoCanonical(canon, i, cn_sentence) ==
    LET canonical_normalized == NormalizeForComparison(canon[i + 1])
        cn_normalized == NormalizeForComparison(cn_sentence)
    IN  /\ canonical_normalized # <<>>
        /\ cn_normalized # <<>>
        /\ Contains(cn_normalized, canonical_normalized)
        /\ i + 1 < Len(canon)
        /\ LET next_normalized == NormalizeForComparison(canon[i + 2])
               combined == canonical_normalized \o <<SP>> \o next_normalized
           IN  /\ next_normalized # <<>>
               /\ Contains(RemoveChar(cn_normalized, SP), RemoveChar(combined, SP))

\* the entry written for a canonical sentence
ConvertedEntry(source, ipa) ==
    [source |-> source, ipa |-> ipa, tupa |-> ConvertCinixToTupa(ipa)]

\* the loop over the sentences of one segment, from the sentence local on;
\* st holds the cursor into the canonical sentences, the result, and the
\* cursor at which each sentence of the segment was met
RECURSIVE MapSegmentSentences(_, _, _, _, _, _)
MapSegmentSentences(canon, cn, ipa_sents, local, ipa_index, st) ==
    IF local > Len(cn) \/ st.sent_index >= Len(canon) THEN st
    ELSE
    LET sent_id == st.sent_index + 1
        met == Append(st.met, sent_id)
    IN
    IF /\ SpansTwoCanonical(canon, st.sent_index, cn[local])
       /\ ipa_sents # <<>> /\ ipa_index + 1 < Len(ipa_sents)
    THEN MapSegmentSentences(canon, cn, ipa_sents, local + 1, ipa_index + 2,
            [sent_index |-> st.sent_index + 2,
             result |-> Put(Put(st.result, sent_id,
                                ConvertedEntry(canon[sent_id], ipa_sents[ipa_index + 1])),
                            sent_id + 1,
                            ConvertedEntry(canon[sent_id + 1], ipa_sents[ipa_index + 2])),
             met |-> met])
    ELSE
    LET has_ipa == ipa_index < Len(ipa_sents)
    IN  MapSegmentSentences(canon, cn, ipa_sents, local + 1,
            IF has_ipa THEN ipa_index + 1 ELSE ipa_index,
            [sent_index |-> st.sent_index + 1,
             result |-> IF has_ipa
                        THEN Put(st.result, sent_id,
                                 ConvertedEntry(canon[sent_id], ipa_sents[ipa_index + 1]))
                        ELSE st.result,
             met |-> met])

CvFrame == <<cv_sentences, cv_segments, cv_transcripts>>
OtherThanCv == <<segVars, buildVars, alignVars, migVars, splitVars, trVars, csVars>>

\* the sentences file is missing or has no entries
NoChapterSentences ==
    /\ cv_pc = "call" /\ cv_sentences = <<>>
    /\ cv_pc' = "returned"
    /\ UNCHANGED <<cv_run, cv_seg, cv_sent_index, cv_result, cv_output, cv_attributed>>
    /\ UNCHANGED CvFrame /\ UNCHANGED OtherThanCv

\* the chapter has no transcript file at all
NoTranscriptFiles ==
    /\ cv_pc = "call" /\ cv_sentences # <<>>
    /\ \A k \in DOMAIN cv_transcripts[cv_run] : ~cv_transcripts[cv_run][k].exists
    /\ cv_pc' = "returned"
    /\ UNCHANGED <<cv_run, cv_seg, cv_sent_index, cv_result, cv_output, cv_attributed>>
    /\ UNCHANGED CvFrame /\ UNCHANGED OtherThanCv

\* the chapter has no segment file
NoSegmentFiles ==
    /\ cv_pc = "call" /\ cv_sentences # <<>>
    /\ \E k \in DOMAIN cv_transcripts[cv_run] : cv_transcripts[cv_run][k].exists
    /\ cv_segments = <<>>
    /\ cv_pc' = "returned"
    /\ UNCHANGED <<cv_run, cv_seg, cv_sent_index, cv_result, cv_output, cv_attributed>>
    /\ UNCHANGED CvFrame /\ UNCHANGED OtherThanCv

\* result = {} and sent_index = 0 before the loop over the segment files
BeginConversion ==
    /\ cv_pc = "call" /\ cv_sentences # <<>>
    /\ \E k \in DOMAIN cv_transcripts[cv_run] : cv_transcripts[cv_run][k].exists
    /\ cv_segments # <<>>
    /\ cv_seg' = 1 /\ cv_sent_index' = 0 /\ cv_result' = <<>>
    /\ cv_pc' = "segments"
    /\ UNCHANGED <<cv_run, cv_output, cv_attributed>>
    /\ UNCHANGED CvFrame /\ UNCHANGED OtherThanCv

\* one iteration of the loop over the segment files
ConvertSegment ==
    /\ cv_pc = "segments" /\ cv_seg <= Len(cv_segments)
    /\ LET cn == SegmentCnSentences(cv_segments[cv_seg])
           ipa_sents == SegmentIpaSentences(cn, cv_transcripts[cv_run][cv_seg])
           after == MapSegmentSentences(cv_sentences, cn, ipa_sents, 1, 0,
                        [sent_index |-> cv_sent_index, result |-> cv_result,
                         met |-> <<>>])
       IN  /\ cv_sent_index' = after.sent_index
           /\ cv_result' = after.result
           /\ cv_attributed' = [cv_attributed EXCEPT ![cv_run] =
                  Append(@, [met |-> after.met, cursor |-> after.sent_index])]
    /\ cv_seg' = cv_seg + 1
    /\ UNCHANGED <<cv_run, cv_output, cv_pc>>
    /\ UNCHANGED CvFrame /\ UNCHANGED OtherThanCv

\* nothing was produced: no file is written
NoSentenceTranscripts ==
    /\ cv_pc = "segments" /\ cv_seg > Len(cv_segments)
    /\ cv_result = <<>>
    /\ cv_pc' = "returned"
    /\ UNCHANGED <<cv_run, cv_seg, cv_sent_index, cv_result, cv_output, cv_attributed>>
    /\ UNCHANGED CvFrame /\ UNCHANGED OtherThanCv

\* the sentence transcripts file is written
WriteSentenceTranscripts ==
    /\ cv_pc = "segments" /\ cv_seg > Len(cv_segments)
    /\ cv_result # <<>>
    /\ cv_output' = [cv_output EXCEPT ![cv_run] = cv_result]
    /\ cv_pc' = "returned"
    /\ UNCHANGED <<cv_run, cv_seg, cv_sent_index, cv_result, cv_attributed>>
    /\ UNCHANGED CvFrame /\ UNCHANGED OtherThanCv

\* the converter is run again, on the second set of transcript files
SecondRun ==
    /\ cv_pc = "returned" /\ cv_run = 1
    /\ cv_run' = 2 /\ cv_pc' = "call"
    /\ UNCHANGED <<cv_seg, cv_sent_index, cv_result, cv_output, cv_attributed>>
    /\ UNCHANGED CvFrame /\ UNCHANGED OtherThanCv

MaxConvertCanon == 3
MaxConvertSegments == 2

ConvertSources == {<<H>>, <<H, DOT>>}
ConvertSegmentTexts == {<<H, DOT>>, <<H, SP, H, DOT>>, <<H, DOT, H, DOT>>}

RECURSIVE ListsOver(_, _)
ListsOver(items, n) ==
    IF n = 0 THEN {<<>>}
    ELSE LET shorter == ListsOver(items, n - 1)
         IN  shorter \cup {Append(l, x) : l \in {y \in shorter : Len(y) = n - 1},
                                          x \in items}

IpaSentence == << <<"a">>, <<".">> >>

TranscriptFiles ==
    {[exists |-> FALSE, ipa |-> <<>>],
     [exists |-> TRUE, ipa |-> IpaSentence],
     [exists |-> TRUE, ipa |-> IpaSentence \o IpaSentence]}

\* two sets of transcript files that differ in the file of one segment only
TranscriptPairs ==
    {<<a, [a EXCEPT ![k] = f]>> :
        a \in [1..MaxConvertSegments -> TranscriptFiles],
        k \in 1..MaxConvertSegments, f \in TranscriptFiles}

InitConvert ==
    /\ IdleSeg /\ IdleBuild /\ IdleAlign /\ IdleMig /\ IdleSplit /\ IdleTr /\ IdleCs
    /\ cv_sentences \in ListsOver(ConvertSources, MaxConvertCanon)
    /\ cv_segments \in ListsOver(ConvertSegmentTexts, MaxConvertSegments)
    /\ cv_transcripts \in TranscriptPairs
    /\ cv_run = 1 /\ cv_seg = 0 /\ cv_sent_index = 0 /\ cv_result = <<>>
    /\ cv_output = << <<>>, <<>> >>
    /\ cv_attributed = << <<>>, <<>> >>
    /\ cv_pc = "call"

NextConvert ==
    \/ NoChapterSentences \/ NoTranscriptFiles \/ NoSegmentFiles
    \/ BeginConversion \/ ConvertSegment
    \/ NoSentenceTranscripts \/ WriteSentenceTranscripts \/ SecondRun

SpecConvert == InitConvert /\ [][NextConvert]_vars

\* ---- C27: the canonical cursor does not depend on the transcripts ----

\* C27: two runs of convert_chapter on the same segment files and canonical
\* sentences, whose transcript files differ for one segment (the file is
\* there or not, or holds another number of ipa sentences), meet every
\* segment sentence at the same canonical sentence and leave every segment
\* with the same cursor.
CursorIndependentOfTranscripts ==
    \A k \in DOMAIN cv_attributed[1] \cap DOMAIN cv_attributed[2] :
        cv_attributed[1][k] = cv_attributed[2][k]

----------------------------------------------------------------------------
\* ---- C28: create_segments conserves the sentences ----

\* the ways to cut the sentences into as many consecutive groups as there
\* are segments: the index of the last sentence of every group
Groupings(ss, segs) ==
    {c \in [1..Len(segs) -> 1..Len(ss)] :
        /\ \A j \in 1..(Len(segs) - 1) : c[j] < c[j + 1]
        /\ (segs # <<>> => c[Len(segs)] = Len(ss))}

\* C28: the segments create_segments returns, joined in order, are the
\* sentences joined in order; every segment is the join of a group of
\* consecutive sentences, the groups taking every sentence once and in order;
\* and no segment is empty.
SegmentsConserveSentences ==
    cs_pc = "returned" =>
        /\ Concat(out_segments) = Concat(in_sentences)
        /\ (in_sentences = <<>> => out_segments = <<>>)
        /\ (in_sentences # <<>> =>
              \E c \in Groupings(in_sentences, out_segments) :
                  \A j \in 1..Len(out_segments) :
                      out_segments[j] =
                          Concat(SubSeq(in_sentences,
                                        IF j = 1 THEN 1 ELSE c[j - 1] + 1, c[j])))
        /\ \A j \in 1..Len(out_segments) : out_segments[j] # <<>>

\* four sentences returned as several segments, one of them of several
\* sentences
SegmentsConserveSentencesWitness ==
    /\ cs_pc = "returned"
    /\ Len(in_sentences) = MaxSentenceCount
    /\ Len(out_segments) \in 2..(Len(in_sentences) - 1)

----------------------------------------------------------------------------
\* ---- C29: the alignment loop of the migration terminates ----

\* C29: every iteration of the alignment loop of migrate_chapter, the one
\* that finds a mismatch included, advances the cursor into the old sentences
\* or the cursor into the new ones, unless it ends the loop.
IterationAdvancesCursor ==
    mig_pc = "loop" =>
        \/ NextIteration.kind = "end"
        \/ NextIteration.old_idx > old_idx
        \/ NextIteration.new_idx > new_idx

----------------------------------------------------------------------------
\* ---- C30: the alignment respects the block boundaries ----

\* C30: every sentence id map_segments_to_sentence_ids gives to a segment
\* that carries a block id is that of a canonical sentence of the same block,
\* the second sentence of a span included.
AttributedWithinBlock ==
    (aligner = "segment_text" /\ align_pc \in {"units", "close"}
        /\ segment.block_id # NoId) =>
        \A k \in 1..Len(sentence_ids_for_segment) :
            chapter_sentences[sentence_ids_for_segment[k]].blockId = segment.block_id

====
